---- MODULE Spec2Model ----
(***************************************************************************)
(* Multi-asset sensor evaluation engine of dagster                         *)
(* (python_modules/dagster/dagster/_core/definitions/sensor_definition.py) *)
(*                                                                         *)
(* The event log is a sequence of materialization records; the storage id  *)
(* of a record is its index in the sequence.  A tick is: the daemon builds *)
(* a MultiAssetSensorEvaluationContext from the stored cursor string       *)
(* (StartTick), the user's evaluation function queries the context and     *)
(* calls advance_cursor / advance_all_cursors, and evaluate_tick drains    *)
(* the function's result, computes the next cursor and validates the       *)
(* result (FinishTick).                                                    *)
(*                                                                         *)
(* Spec is the sensor with one target job on a growing log; SpecCap starts *)
(* from a log that exceeds the backlog cap; SpecTargets draws the sensor's *)
(* target jobs; SpecCodec writes cursor maps as strings and loads them;    *)
(* SpecForeign loads cursor strings written by other engines; SpecReuse    *)
(* runs tick after tick on one context; SpecUtil calls the context's       *)
(* utility methods for drawn asset definitions, logs and cursors;          *)
(* SpecDrain follows one tick through the steps of evaluate_tick;          *)
(* SpecLive notes how long the log was at the function's last query while  *)
(* the log grows; SpecOrder keeps the mappings of a tick's advance_cursor  *)
(* calls in order; SpecAssetSensor is the single-asset sensor              *)
(* (AssetSensorDefinition), whose cursor is the decimal string of a        *)
(* storage id.                                                             *)
(***************************************************************************)
EXTENDS Integers, Sequences, FiniteSets, TLC

\* ------------------------------------------------------------------ bounds
\* Events the log may hold under Spec.
MaxEvents == 3
\* Partitions the events of Spec are materialized in.
NumPartitions == 2
\* Items a generator / list result of the user function may hold.
MaxItems == 2
\* Events of the pre-filled log of SpecCap beyond MAX_NUM_UNCONSUMED_EVENTS.
ExtraEventsCap == 2
\* Under SpecCap the user consumes records among the last CapWindow of the log.
CapWindow == 4
\* Partition keys and storage ids of the cursor maps SpecCodec encodes.
CodecPartitions == 2
CodecMaxId == 2

\* ------------------------------------------------------- program constants
MAX_NUM_UNCONSUMED_EVENTS == 25

\* Python's None, for an optional int or an optional partition key.  Storage
\* ids and partition keys are positive.
None == -1

\* The sensor's monitored asset keys, in the order of context.asset_keys.
AssetKeys == <<"asset_1", "asset_2">>

Assets == {AssetKeys[i] : i \in 1..Len(AssetKeys)}

\* str(asset_key), the key of the cursor's JSON object.
StrAssetKey(asset_key) ==
    IF asset_key = "asset_1" THEN "AssetKey(['asset_1'])" ELSE "AssetKey(['asset_2'])"

\* asset_1 is partitioned, asset_2 is not (partitions_def is None).
IsPartitioned(asset_key) == asset_key = "asset_1"

\* Events in a log SpecUtil draws.
MaxUtilEvents == 2

\* Largest log any specification builds; partition keys are 1..NumPartitionKeys.
NumPartitionKeys == MAX_NUM_UNCONSUMED_EVENTS + ExtraEventsCap + 1

\* partitions_def.get_partition_keys() of an asset (empty when unpartitioned).
PartitionKeysOf(asset_key) ==
    IF IsPartitioned(asset_key) THEN [i \in 1..NumPartitionKeys |-> i] ELSE <<>>

\* An asset's partitions_def: None, a PartitionsDefinition that is not a
\* TimeWindowPartitionsDefinition, or a TimeWindowPartitionsDefinition, with
\* its get_partition_keys().
NoPartitionsDef == [kind |-> "None", keys |-> <<>>]

StaticPartitionsDef(keys) == [kind |-> "StaticPartitionsDefinition", keys |-> keys]

TimeWindowPartitionsDef(keys) == [kind |-> "TimeWindowPartitionsDefinition", keys |-> keys]

\* isinstance(partitions_def, PartitionsDefinition)
IsPartitionsDefinition(partitions_def) == partitions_def.kind # "None"

\* The asset definitions of the repository the sensor is declared in.
AssetsDefsByKey ==
    [a \in Assets |->
        IF IsPartitioned(a) THEN StaticPartitionsDef(PartitionKeysOf(a))
        ELSE NoPartitionsDef]

\* The sensor's declared target jobs and the job names a RunRequest may carry.
NoJobName == "None"
Targets == <<"job_1">>
\* The target declarations SpecTargets draws from: no job, one job, two jobs.
TargetConfigs == {<<>>, <<"job_1">>, <<"job_1", "job_2">>}
\* RunRequest(job_name=""): a job name that is a string but is not truthy.
EmptyJobName == ""
\* The job names the RunRequests of SpecTargets carry.
AnyJobNames == {NoJobName, EmptyJobName, "job_1", "job_2"}
RequestJobNames == {NoJobName, "job_2"}

\* ----------------------------------------------------------------- helpers
Range(f) == {f[x] : x \in DOMAIN f}

MaxOf(S) == CHOOSE x \in S : \A y \in S : y <= x

MinOf(S) == CHOOSE x \in S : \A y \in S : x <= y

RECURSIVE Ascending(_)
\* sorted(ids)
Ascending(S) ==
    IF S = {} THEN <<>> ELSE <<MinOf(S)>> \o Ascending(S \ {MinOf(S)})

RECURSIVE Descending(_)
Descending(S) ==
    IF S = {} THEN <<>> ELSE <<MaxOf(S)>> \o Descending(S \ {MaxOf(S)})

\* seq[:limit]; limit None is no limit.
Limit(seq, limit) ==
    IF limit = None \/ limit >= Len(seq) THEN seq ELSE SubSeq(seq, 1, limit)

EmptyDict == [p \in {} |-> 0]

\* d[k] = v
DictSet(d, k, v) == [x \in DOMAIN d \cup {k} |-> IF x = k THEN v ELSE d[x]]

\* d.pop(k)
DictPop(d, k) == [x \in DOMAIN d \ {k} |-> d[x]]

\* ------------------------------------------------------------- event store
\* instance.get_event_records(EventRecordsFilter(ASSET_MATERIALIZATION,
\* asset_key, after_cursor, before_cursor)): the ids of the asset's records
\* strictly between the two cursors.
MaterializationIds(st, asset_key, after_cursor, before_cursor) ==
    {i \in 1..Len(st) :
        /\ st[i].asset_key = asset_key
        /\ (after_cursor = None \/ i > after_cursor)
        /\ (before_cursor = None \/ i < before_cursor)}

\* EventRecordsFilter(ASSET_MATERIALIZATION, storage_ids=ids)
RecordsWithStorageIds(st, ids) == {i \in 1..Len(st) : i \in ids}

\* _get_partition_key_from_event_log_record
PartitionKeyOfRecord(st, id) == st[id].partition

\* ------------------------------------------------------------ cursor codec
\* MultiAssetSensorAssetCursorComponent
Component(partition, event_id, trailing) ==
    [latest_consumed_event_partition |-> partition,
     latest_consumed_event_id |-> event_id,
     trailing_unconsumed_partitioned_event_ids |-> trailing]

\* json.dumps of a dict of partition key to id: the JSON object's members.
DumpDict(d) == {<<p, d[p]>> : p \in DOMAIN d}

\* json.loads of such an object.
LoadDict(obj) ==
    [p \in {m[1] : m \in obj} |-> (CHOOSE m \in obj : m[1] = p)[2]]

\* Variant: the component written without its trailing map.
DumpComponent_WithoutTrailing(c) ==
    <<c.latest_consumed_event_partition, c.latest_consumed_event_id>>

\* json.dumps of a component: the NamedTuple is written as a 3-element list.
DumpComponent(c) ==
    <<c.latest_consumed_event_partition, c.latest_consumed_event_id,
      DumpDict(c.trailing_unconsumed_partitioned_event_ids)>>

\* The cursor string: None, or a JSON object, held as the sequence of its
\* members <<key, list>> in document order.
NoCursor == [is_none |-> TRUE, members |-> <<>>]

JsonCursor(members) == [is_none |-> FALSE, members |-> members]

RECURSIVE LoadCursorMembers(_, _)
\* The loop of MultiAssetSensorContextCursor.__init__: stops at the first
\* member whose list has not 3 elements.
LoadCursorMembers(members, acc) ==
    IF members = <<>> THEN acc
    ELSE LET key == Head(members)[1]
             cursor_list == Head(members)[2]
         IN  IF Len(cursor_list) # 3 THEN acc
             ELSE LoadCursorMembers(
                      Tail(members),
                      [k \in DOMAIN acc \cup {key} |->
                          IF k = key
                          THEN Component(cursor_list[1], cursor_list[2],
                                         LoadDict(cursor_list[3]))
                          ELSE acc[k]])

\* MultiAssetSensorContextCursor(cursor)._cursor_component_by_asset_key
UnpackCursor(cursor) ==
    IF cursor.is_none THEN [k \in {} |-> 0]
    ELSE LoadCursorMembers(cursor.members, [k \in {} |-> 0])

\* MultiAssetSensorContextCursor.get_cursor_for_asset
GetCursorForAsset(unpacked_cursor, asset_key) ==
    IF StrAssetKey(asset_key) \in DOMAIN unpacked_cursor
    THEN unpacked_cursor[StrAssetKey(asset_key)]
    ELSE Component(None, None, EmptyDict)

\* x or 0
OrZero(x) == IF x = None THEN 0 ELSE x

\* ------------------------------------------------------------------- state
VARIABLES
    targets,                    \* sensor._targets: the names of the declared target jobs
    assetKeys,                  \* context._asset_keys: the monitored keys
    assetsDefsByKey,            \* repository_def._assets_defs_by_key: key to partitions_def
    store,                      \* the event log: materialization records by storage id
    storedCursor,               \* the cursor string the daemon hands to the next tick
    pc,                         \* "idle", "evaluating", "done", "failed"
    cursor,                     \* context._cursor
    unpackedCursor,             \* context._unpacked_cursor._cursor_component_by_asset_key
    advancedRecordIdsByKey,     \* _cursor_advance_state_mutation._advanced_record_ids_by_key
    partitionKeyByRecordId,     \* _cursor_advance_state_mutation._partition_key_by_record_id
    advanceAllCursorsCalled,    \* _cursor_advance_state_mutation.advance_all_cursors_called
    cursorHasBeenUpdated,       \* context._cursor_has_been_updated
    fetchedInitialUnconsumedEvents, \* context._fetched_initial_unconsumed_events
    initialUnconsumedEventsById,    \* ids cached in context._initial_unconsumed_events_by_id
    result,                     \* what evaluate_tick returned (SensorExecutionData)
    tick                        \* history: the tick's start cursor and what it did

vars == <<targets, assetKeys, assetsDefsByKey, store, storedCursor, pc, cursor, unpackedCursor, advancedRecordIdsByKey,
          partitionKeyByRecordId, advanceAllCursorsCalled, cursorHasBeenUpdated,
          fetchedInitialUnconsumedEvents, initialUnconsumedEventsById, result, tick>>

ctxVars == <<cursor, unpackedCursor, advancedRecordIdsByKey, partitionKeyByRecordId,
             advanceAllCursorsCalled, cursorHasBeenUpdated,
             fetchedInitialUnconsumedEvents, initialUnconsumedEventsById>>

\* MultiAssetSensorCursorAdvances.__init__
NoAdvancedRecords == [a \in Assets |-> {}]

NoResult == [returned |-> FALSE, run_requests |-> <<>>, skip_message |-> "None",
             cursor |-> NoCursor]

\* History of a tick: the cursor it started from, the advance state and the
\* user function's result when evaluate_tick ended, and how the cursor
\* computation ended.
NoTick == [start_cursor |-> NoCursor, advanced |-> NoAdvancedRecords,
           advance_all |-> FALSE, computed |-> "not_run",
           user_result |-> [kind |-> "None", items |-> <<>>]]

\* ----------------------------------------------------- context: the queries
\* _cache_initial_unconsumed_events: the ids of the events the cache holds
\* after the call.
CacheInitialUnconsumedEvents(st, unpacked_cursor, fetched, cached) ==
    IF fetched THEN cached
    ELSE RecordsWithStorageIds(
             st,
             UNION {Range(GetCursorForAsset(unpacked_cursor, a)
                              .trailing_unconsumed_partitioned_event_ids) : a \in Assets})

\* _get_unconsumed_events_with_ids, on the filled cache
GetUnconsumedEventsWithIds(cached, event_ids) == Ascending(event_ids \cap cached)

\* get_trailing_unconsumed_events
GetTrailingUnconsumedEvents(cached, unpacked_cursor, asset_key) ==
    GetUnconsumedEventsWithIds(
        cached,
        Range(GetCursorForAsset(unpacked_cursor, asset_key)
                  .trailing_unconsumed_partitioned_event_ids))

\* Variant: the latest materialization of the asset, whatever the cursor.
LatestMaterializationRecordByKey_IgnoringCursor(st, unpacked_cursor, asset_key) ==
    LET event_records ==
            Limit(Descending(MaterializationIds(st, asset_key, None, None)), 1)
    IN  IF event_records # <<>> THEN event_records[1] ELSE None

\* latest_materialization_records_by_key()[asset_key]: the record id or None
LatestMaterializationRecordByKey(st, unpacked_cursor, asset_key) ==
    LET event_records ==
            Limit(Descending(MaterializationIds(
                      st, asset_key,
                      GetCursorForAsset(unpacked_cursor, asset_key).latest_consumed_event_id,
                      None)), 1)
    IN  IF event_records # <<>> THEN event_records[1] ELSE None

\* Variant: the latest records first.
MaterializationRecordsForKey_LatestFirst(st, unpacked_cursor, asset_key, limit) ==
    Limit(Descending(MaterializationIds(
              st, asset_key,
              GetCursorForAsset(unpacked_cursor, asset_key).latest_consumed_event_id,
              None)), limit)

\* materialization_records_for_key(asset_key, limit)
MaterializationRecordsForKey(st, unpacked_cursor, asset_key, limit) ==
    Limit(Ascending(MaterializationIds(
              st, asset_key,
              GetCursorForAsset(unpacked_cursor, asset_key).latest_consumed_event_id,
              None)), limit)

\* _get_partitions_after_cursor
GetPartitionsAfterCursor(unpacked_cursor, asset_key) ==
    LET partition_key ==
            GetCursorForAsset(unpacked_cursor, asset_key).latest_consumed_event_partition
        keys == PartitionKeysOf(asset_key)
    IN  IF partition_key # None
        THEN {keys[i] : i \in {j \in 1..Len(keys) :
                                  \E k \in 1..Len(keys) : keys[k] = partition_key /\ j > k}}
        ELSE Range(keys)

\* The OrderedDict of latest_materialization_records_by_partition, as the
\* sequence of its <<partition, id>> items: pop the partition, add at the end.
OrderedDictPut(items, partition, id) ==
    SelectSeq(items, LAMBDA it : it[1] # partition) \o <<<<partition, id>>>>

RECURSIVE PutRecords(_, _, _, _)
PutRecords(items, st, events, partitions_to_fetch) ==
    IF events = <<>> THEN items
    ELSE LET partition == PartitionKeyOfRecord(st, Head(events))
         IN  PutRecords(
                 IF partition # None /\ partition \in partitions_to_fetch
                 THEN OrderedDictPut(items, partition, Head(events))
                 ELSE items,
                 st, Tail(events), partitions_to_fetch)

\* latest_materialization_records_by_partition(asset_key, after_cursor_partition),
\* for a monitored, partitioned asset
LatestMaterializationRecordsByPartition(st, unpacked_cursor, cached, asset_key, after_cursor_partition) ==
    LET partitions_to_fetch ==
            IF after_cursor_partition
            THEN GetPartitionsAfterCursor(unpacked_cursor, asset_key)
            ELSE Range(PartitionKeysOf(asset_key))
        unconsumed == GetTrailingUnconsumedEvents(cached, unpacked_cursor, asset_key)
        partition_materializations ==
            Ascending({i \in MaterializationIds(
                               st, asset_key,
                               GetCursorForAsset(unpacked_cursor, asset_key)
                                   .latest_consumed_event_id,
                               None) :
                          PartitionKeyOfRecord(st, i) \in partitions_to_fetch})
    IN  PutRecords(PutRecords(<<>>, st, unconsumed, partitions_to_fetch),
                   st, partition_materializations, partitions_to_fetch)

\* ------------------------------------------- MultiAssetSensorCursorAdvances
\* Variant: a None value withdraws the requests recorded for its key.
AddAdvancedRecordIds_NoneWithdraws(advanced, records_by_key) ==
    [a \in Assets |->
        IF records_by_key[a] # None THEN advanced[a] \cup {records_by_key[a]}
        ELSE {}]

\* add_advanced_records: _advanced_record_ids_by_key after the call.
\* records_by_key maps every asset key to a record id or None.
AddAdvancedRecordIds(advanced, records_by_key) ==
    [a \in Assets |->
        IF records_by_key[a] # None THEN advanced[a] \cup {records_by_key[a]}
        ELSE advanced[a]]

\* add_advanced_records: _partition_key_by_record_id after the call.
AddPartitionKeys(partition_keys, st, records_by_key) ==
    [id \in DOMAIN partition_keys \cup (Range(records_by_key) \ {None}) |->
        IF id \in Range(records_by_key) THEN PartitionKeyOfRecord(st, id)
        ELSE partition_keys[id]]

\* Variant: the early return of get_cursor_with_advances is never taken.
NoEventsMarkedAsAdvanced_Never(advanced) == FALSE

\* len(self._advanced_record_ids_by_key) == 0
NoEventsMarkedAsAdvanced(advanced) == \A a \in Assets : advanced[a] = {}

\* Variant: the consumed pointer moves to the greatest advanced id whatever
\* the tick-start id is.
AdvancesPastTickStart_Always(greatest_in_tick, at_tick_start) == TRUE

\* greatest_consumed_event_id_in_tick > (latest_consumed_event_id_at_tick_start or 0)
AdvancesPastTickStart(greatest_in_tick, at_tick_start) ==
    greatest_in_tick > OrZero(at_tick_start)

\* Variant: the query of lines 1004-1012 without its before_cursor.
RecordsBeforeGreatestAdvanced_NoUpperBound(st, asset_key, at_tick_start, greatest_in_tick) ==
    Ascending(MaterializationIds(st, asset_key, at_tick_start, None))

\* The query of lines 1004-1012: the asset's records after the tick-start
\* consumed id and before the greatest advanced id.
RecordsBeforeGreatestAdvanced(st, asset_key, at_tick_start, greatest_in_tick) ==
    Ascending(MaterializationIds(st, asset_key, at_tick_start, greatest_in_tick))

\* unconsumed_events of get_asset_cursor_with_advances
UnconsumedEventsInTick(st, cached, unpacked_cursor, asset_key, greatest_in_tick) ==
    LET at_tick_start ==
            GetCursorForAsset(unpacked_cursor, asset_key).latest_consumed_event_id
    IN  GetTrailingUnconsumedEvents(cached, unpacked_cursor, asset_key)
        \o (IF AdvancesPastTickStart(greatest_in_tick, at_tick_start)
            THEN RecordsBeforeGreatestAdvanced(st, asset_key, at_tick_start,
                                               greatest_in_tick)
            ELSE <<>>)

\* Variant: the loop body without the elif branch (an advanced event leaves
\* the entry of its partition in place).
RecordUnconsumedEvent_KeepsAdvanced(latest_unconsumed, st, event, advanced_records) ==
    LET partition == PartitionKeyOfRecord(st, event)
    IN  IF partition # None /\ event \notin advanced_records
        THEN DictSet(latest_unconsumed, partition, event)
        ELSE latest_unconsumed

\* The body of the loop over unconsumed_events (lines 1021-1027).
RecordUnconsumedEvent(latest_unconsumed, st, event, advanced_records) ==
    LET partition == PartitionKeyOfRecord(st, event)
    IN  IF partition # None
        THEN IF event \notin advanced_records
             THEN DictSet(latest_unconsumed, partition, event)
             ELSE IF partition \in DOMAIN latest_unconsumed
                  THEN DictPop(latest_unconsumed, partition)
                  ELSE latest_unconsumed
        ELSE latest_unconsumed

RECURSIVE RecordUnconsumedEvents_ForgetsTrailing(_, _, _, _)
\* Variant: the map is rebuilt from the events the tick skipped over; the
\* entries the tick started with are forgotten.
RecordUnconsumedEvents_ForgetsTrailing(latest_unconsumed, st, events, advanced_records) ==
    IF events = <<>> THEN EmptyDict
    ELSE LET last == events[Len(events)]
             rest == RecordUnconsumedEvents_ForgetsTrailing(
                         latest_unconsumed, st, SubSeq(events, 1, Len(events) - 1),
                         advanced_records)
         IN  IF last \in Range(latest_unconsumed) THEN rest
             ELSE RecordUnconsumedEvent(rest, st, last, advanced_records)

RECURSIVE RecordUnconsumedEvents(_, _, _, _)
\* The loop over unconsumed_events (lines 1021-1027).
RecordUnconsumedEvents(latest_unconsumed, st, events, advanced_records) ==
    IF events = <<>> THEN latest_unconsumed
    ELSE RecordUnconsumedEvents(
             RecordUnconsumedEvent(latest_unconsumed, st, Head(events), advanced_records),
             st, Tail(events), advanced_records)

\* Variant: lines 1029-1033 left out.
PopLatestConsumedPartition_Skipped(latest_unconsumed, latest_consumed_partition_in_tick) ==
    latest_unconsumed

\* Lines 1029-1033: the partition just advanced to is not trailing.
PopLatestConsumedPartition(latest_unconsumed, latest_consumed_partition_in_tick) ==
    IF /\ latest_consumed_partition_in_tick # None
       /\ latest_consumed_partition_in_tick \in DOMAIN latest_unconsumed
    THEN DictPop(latest_unconsumed, latest_consumed_partition_in_tick)
    ELSE latest_unconsumed

\* Variant: the backlog check with > in place of >=.
TooManyUnconsumedEvents_Above(latest_unconsumed) ==
    Cardinality(DOMAIN latest_unconsumed) > MAX_NUM_UNCONSUMED_EVENTS

\* Variant: no backlog check.
TooManyUnconsumedEvents_Never(latest_unconsumed) == FALSE

\* Line 1035: the backlog check.
TooManyUnconsumedEvents(latest_unconsumed) ==
    Cardinality(DOMAIN latest_unconsumed) >= MAX_NUM_UNCONSUMED_EVENTS

\* Lines 1049-1055: the consumed pointer of the new component.
NewConsumedPointer(initial_asset_cursor, greatest_in_tick, partition_in_tick) ==
    IF AdvancesPastTickStart(greatest_in_tick,
                             initial_asset_cursor.latest_consumed_event_id)
    THEN [partition |-> partition_in_tick, event_id |-> greatest_in_tick]
    ELSE [partition |-> initial_asset_cursor.latest_consumed_event_partition,
          event_id |-> initial_asset_cursor.latest_consumed_event_id]

\* get_asset_cursor_with_advances.  raised: the backlog error; dict: the value
\* of latest_unconsumed_record_by_partition when the call ends; in_place:
\* whether that dict is the initial component's own dict, changed in place.
GetAssetCursorWithAdvances(st, cached, unpacked_cursor, advanced, partition_keys, advance_all_cursors_called, asset_key) ==
    LET advanced_records == advanced[asset_key]
        initial_asset_cursor == GetCursorForAsset(unpacked_cursor, asset_key)
        greatest_in_tick == MaxOf(advanced_records)
        partition_in_tick == partition_keys[greatest_in_tick]
        latest_unconsumed ==
            IF advance_all_cursors_called THEN EmptyDict
            ELSE PopLatestConsumedPartition(
                     RecordUnconsumedEvents(
                         initial_asset_cursor.trailing_unconsumed_partitioned_event_ids,
                         st,
                         UnconsumedEventsInTick(st, cached, unpacked_cursor, asset_key,
                                                greatest_in_tick),
                         advanced_records),
                     partition_in_tick)
        pointer == NewConsumedPointer(initial_asset_cursor, greatest_in_tick,
                                      partition_in_tick)
    IN  IF advanced_records = {}
        THEN [raised |-> FALSE, component |-> initial_asset_cursor,
              dict |-> initial_asset_cursor.trailing_unconsumed_partitioned_event_ids,
              in_place |-> FALSE]
        ELSE [raised |-> ~advance_all_cursors_called
                         /\ TooManyUnconsumedEvents(latest_unconsumed),
              component |-> Component(pointer.partition, pointer.event_id,
                                      latest_unconsumed),
              dict |-> latest_unconsumed,
              in_place |-> ~advance_all_cursors_called]

\* The initial cursor after a get_asset_cursor_with_advances call: the dict of
\* a stored component is the object the call changed.
InitialCursorAfter(unpacked_cursor, asset_key, call) ==
    IF call.in_place /\ StrAssetKey(asset_key) \in DOMAIN unpacked_cursor
    THEN [unpacked_cursor EXCEPT
             ![StrAssetKey(asset_key)].trailing_unconsumed_partitioned_event_ids =
                 call.dict]
    ELSE unpacked_cursor

RECURSIVE AssetCursorsWithAdvances_OnlyAdvanced(_, _, _, _, _, _, _, _)
\* The new cursor written for the assets with an advance request only.
AssetCursorsWithAdvances_OnlyAdvanced(i, members, st, cached, unpacked_cursor, advanced, partition_keys, advance_all_cursors_called) ==
    IF i > Len(AssetKeys)
    THEN [kind |-> "cursor", cursor |-> JsonCursor(members),
          unpacked |-> unpacked_cursor]
    ELSE IF advanced[AssetKeys[i]] = {}
    THEN AssetCursorsWithAdvances_OnlyAdvanced(
             i + 1, members, st, cached, unpacked_cursor, advanced,
             partition_keys, advance_all_cursors_called)
    ELSE LET call == GetAssetCursorWithAdvances(
                         st, cached, unpacked_cursor, advanced, partition_keys,
                         advance_all_cursors_called, AssetKeys[i])
             after == InitialCursorAfter(unpacked_cursor, AssetKeys[i], call)
         IN  IF call.raised
             THEN [kind |-> "raised", cursor |-> NoCursor, unpacked |-> after]
             ELSE AssetCursorsWithAdvances_OnlyAdvanced(
                      i + 1,
                      Append(members, <<StrAssetKey(AssetKeys[i]),
                                        DumpComponent(call.component)>>),
                      st, cached, after, advanced, partition_keys,
                      advance_all_cursors_called)

RECURSIVE AssetCursorsWithAdvances(_, _, _, _, _, _, _, _)
\* The dict comprehension of get_cursor_with_advances over context.asset_keys
\* from index i on; it ends at the first asset whose call raises.
AssetCursorsWithAdvances(i, members, st, cached, unpacked_cursor, advanced, partition_keys, advance_all_cursors_called) ==
    IF i > Len(AssetKeys)
    THEN [kind |-> "cursor", cursor |-> JsonCursor(members),
          unpacked |-> unpacked_cursor]
    ELSE LET call == GetAssetCursorWithAdvances(
                         st, cached, unpacked_cursor, advanced, partition_keys,
                         advance_all_cursors_called, AssetKeys[i])
             after == InitialCursorAfter(unpacked_cursor, AssetKeys[i], call)
         IN  IF call.raised
             THEN [kind |-> "raised", cursor |-> NoCursor, unpacked |-> after]
             ELSE AssetCursorsWithAdvances(
                      i + 1,
                      Append(members, <<StrAssetKey(AssetKeys[i]),
                                        DumpComponent(call.component)>>),
                      st, cached, after, advanced, partition_keys,
                      advance_all_cursors_called)

\* get_cursor_with_advances: kind "none" is the None it returns when nothing
\* was advanced, "raised" the backlog error, "cursor" the new cursor string.
GetCursorWithAdvances(st, cached, unpacked_cursor, advanced, partition_keys, advance_all_cursors_called) ==
    IF NoEventsMarkedAsAdvanced(advanced)
    THEN [kind |-> "none", cursor |-> NoCursor, unpacked |-> unpacked_cursor]
    ELSE AssetCursorsWithAdvances(1, <<>>, st, cached, unpacked_cursor, advanced,
                                  partition_keys, advance_all_cursors_called)

\* ------------------------------------------------- the user function's result
SkipReasonItem == [type |-> "SkipReason", job_name |-> NoJobName]

RunRequestItem(job_name) == [type |-> "RunRequest", job_name |-> job_name]

NoneItem == [type |-> "None", job_name |-> NoJobName]

\* The items a result may hold when its RunRequests carry the job names.
ResultItemsWith(job_names) ==
    {SkipReasonItem, NoneItem} \cup {RunRequestItem(j) : j \in job_names}

ResultItems == ResultItemsWith(RequestJobNames)

\* What materialization_fn(context) returns: None, a bare SkipReason, a bare
\* RunRequest, or a generator / list of items.
UserResultsWith(job_names) ==
    {[kind |-> "None", items |-> <<>>],
     [kind |-> "SkipReason", items |-> <<SkipReasonItem>>]}
    \cup {[kind |-> "RunRequest", items |-> <<RunRequestItem(j)>>] : j \in job_names}
    \cup {[kind |-> "sequence", items |-> s] :
             s \in UNION {[1..n -> ResultItemsWith(job_names)] : n \in 0..MaxItems}}

UserResults == UserResultsWith(RequestJobNames)

\* runs_yielded set only by the RunRequests among the items.
RunsYielded_OnlyRunRequests(user_result) ==
    \E i \in 1..Len(user_result.items) : user_result.items[i].type = "RunRequest"

\* runs_yielded of MultiAssetSensorDefinition._wrap_asset_fn._fn
RunsYielded(user_result) ==
    \/ user_result.kind = "sequence" /\ Len(user_result.items) > 0
    \/ user_result.kind = "RunRequest"

\* _fn returns before the guard and the cursor update when the result is None.
ReachesCursorUpdate(user_result) == user_result.kind # "None"

\* The guard of _fn (lines 1771-1780).
CursorNotUpdatedError(user_result, cursor_has_been_updated) ==
    RunsYielded(user_result) /\ ~cursor_has_been_updated

EmptyResultMessage == "Sensor function returned an empty result"

SkipMessage == "skip_message"

\* bool(job_name): None and the empty string are not truthy.
IsTruthy(job_name) == job_name \notin {NoJobName, EmptyJobName}

\* check_valid_run_requests: whether it raises.
InvalidRunRequests(sensor_targets, run_requests) ==
    \/ run_requests # <<>> /\ sensor_targets = <<>>
    \/ \E i \in 1..Len(run_requests) :
          \/ run_requests[i].job_name = NoJobName /\ Len(sensor_targets) > 1
          \/ /\ IsTruthy(run_requests[i].job_name)
             /\ run_requests[i].job_name \notin Range(sensor_targets)

\* The check.invariant of SensorExecutionData.__new__: "Found both skip data
\* and run request data".
FoundBothSkipAndRunData(run_requests, skip_message) ==
    run_requests # <<>> /\ skip_message # "None"

\* Variant: a SkipReason may accompany RunRequests in a list; the skip's
\* message is returned with them and SensorExecutionData takes the pair.
EvaluateResult_SkipWithRuns(sensor_targets, items) ==
    LET run_requests == SelectSeq(items, LAMBDA it : it.type = "RunRequest")
        has_skip == \E i \in 1..Len(items) : items[i].type = "SkipReason"
        has_none == \E i \in 1..Len(items) : items[i].type = "None"
    IN  IF items = <<>> \/ items = <<NoneItem>>
        THEN [failed |-> FALSE, run_requests |-> <<>>,
              skip_message |-> EmptyResultMessage]
        ELSE IF Len(items) = 1
        THEN [failed |-> InvalidRunRequests(sensor_targets, run_requests),
              run_requests |-> run_requests,
              skip_message |-> IF has_skip THEN SkipMessage ELSE "None"]
        ELSE [failed |-> \/ has_none
                         \/ has_skip /\ run_requests = <<>>
                         \/ InvalidRunRequests(sensor_targets, run_requests),
              run_requests |-> run_requests,
              skip_message |-> IF has_skip THEN SkipMessage ELSE "None"]

\* Variant: the SkipReasons of a list that also holds RunRequests are dropped.
EvaluateResult_DropsSkip(sensor_targets, items) ==
    LET run_requests == SelectSeq(items, LAMBDA it : it.type = "RunRequest")
        has_skip == \E i \in 1..Len(items) : items[i].type = "SkipReason"
        has_none == \E i \in 1..Len(items) : items[i].type = "None"
    IN  IF items = <<>> \/ items = <<NoneItem>>
        THEN [failed |-> FALSE, run_requests |-> <<>>,
              skip_message |-> EmptyResultMessage]
        ELSE IF Len(items) = 1
        THEN [failed |-> InvalidRunRequests(sensor_targets, run_requests),
              run_requests |-> run_requests,
              skip_message |-> IF has_skip THEN SkipMessage ELSE "None"]
        ELSE [failed |-> \/ has_none
                         \/ has_skip /\ run_requests = <<>>
                         \/ InvalidRunRequests(sensor_targets, run_requests),
              run_requests |-> run_requests,
              skip_message |-> "None"]

\* Variant: of several SkipReasons without a RunRequest the message of one is
\* returned.
EvaluateResult_TakesOneSkip(sensor_targets, items) ==
    LET run_requests == SelectSeq(items, LAMBDA it : it.type = "RunRequest")
        has_skip == \E i \in 1..Len(items) : items[i].type = "SkipReason"
        has_none == \E i \in 1..Len(items) : items[i].type = "None"
    IN  IF items = <<>> \/ items = <<NoneItem>>
        THEN [failed |-> FALSE, run_requests |-> <<>>,
              skip_message |-> EmptyResultMessage]
        ELSE IF Len(items) = 1
        THEN [failed |-> InvalidRunRequests(sensor_targets, run_requests),
              run_requests |-> run_requests,
              skip_message |-> IF has_skip THEN SkipMessage ELSE "None"]
        ELSE [failed |-> \/ has_none
                         \/ has_skip /\ run_requests # <<>>
                         \/ InvalidRunRequests(sensor_targets, run_requests),
              run_requests |-> run_requests,
              skip_message |-> IF has_skip THEN SkipMessage ELSE "None"]

\* evaluate_tick on the drained result list (lines 1257-1302): the items are
\* sorted into run requests and a skip message, the run requests are checked
\* against the targets and SensorExecutionData is built.
EvaluateResult(sensor_targets, items) ==
    LET run_requests == SelectSeq(items, LAMBDA it : it.type = "RunRequest")
        has_skip == \E i \in 1..Len(items) : items[i].type = "SkipReason"
        has_none == \E i \in 1..Len(items) : items[i].type = "None"
        data ==
            IF items = <<>> \/ items = <<NoneItem>>
            THEN [failed |-> FALSE, run_requests |-> <<>>,
                  skip_message |-> EmptyResultMessage]
            ELSE IF Len(items) = 1
            THEN [failed |-> InvalidRunRequests(sensor_targets, run_requests),
                  run_requests |-> run_requests,
                  skip_message |-> IF has_skip THEN SkipMessage ELSE "None"]
            ELSE [failed |-> \/ has_none
                             \/ has_skip
                             \/ InvalidRunRequests(sensor_targets, run_requests),
                  run_requests |-> run_requests,
                  skip_message |-> "None"]
    IN  [data EXCEPT
            !.failed = data.failed
                       \/ FoundBothSkipAndRunData(data.run_requests, data.skip_message)]

\* ----------------------------------------------------------------- actions
InitWith(st) ==
    /\ store = st
    /\ storedCursor = NoCursor
    /\ pc = "idle"
    /\ cursor = NoCursor
    /\ unpackedCursor = UnpackCursor(NoCursor)
    /\ advancedRecordIdsByKey = NoAdvancedRecords
    /\ partitionKeyByRecordId = EmptyDict
    /\ advanceAllCursorsCalled = FALSE
    /\ cursorHasBeenUpdated = FALSE
    /\ fetchedInitialUnconsumedEvents = FALSE
    /\ initialUnconsumedEventsById = {}
    /\ result = NoResult
    /\ targets = Targets
    /\ assetKeys = AssetKeys
    /\ assetsDefsByKey = AssetsDefsByKey
    /\ tick = NoTick

\* The log is empty when the sensor is created.
Init == InitWith(<<>>)

\* An asset is materialized: a record is appended to the log.  The log grows
\* before and during a tick.
MaterializeRecord(asset_key, partition) ==
    /\ pc \in {"idle", "evaluating"}
    /\ Len(store) < MaxEvents
    /\ store' = Append(store, [asset_key |-> asset_key, partition |-> partition])
    /\ UNCHANGED <<targets, assetKeys, assetsDefsByKey, storedCursor, pc, ctxVars, result, tick>>

\* Records of the partitioned asset carry a partition key, records of the
\* unpartitioned asset none.
Materialize ==
    \E asset_key \in Assets :
        \E partition \in (IF IsPartitioned(asset_key) THEN 1..NumPartitions ELSE {None}) :
            MaterializeRecord(asset_key, partition)

\* The daemon starts a tick: MultiAssetSensorEvaluationContext.__init__ on
\* the stored cursor.
StartTick ==
    /\ pc \in {"idle", "done", "failed"}
    /\ pc' = "evaluating"
    /\ cursor' = storedCursor
    /\ unpackedCursor' = UnpackCursor(storedCursor)
    /\ advancedRecordIdsByKey' = NoAdvancedRecords
    /\ partitionKeyByRecordId' = EmptyDict
    /\ advanceAllCursorsCalled' = FALSE
    /\ cursorHasBeenUpdated' = FALSE
    /\ fetchedInitialUnconsumedEvents' = FALSE
    /\ initialUnconsumedEventsById' = {}
    /\ result' = NoResult
    /\ tick' = [NoTick EXCEPT !.start_cursor = storedCursor]
    /\ UNCHANGED <<targets, assetKeys, assetsDefsByKey, store, storedCursor>>

\* Variant: advance_cursor moves the consumed pointer of the context's cursor
\* at once.
AdvanceCursorWith_Eager(records_by_key) ==
    /\ pc = "evaluating"
    /\ advancedRecordIdsByKey' = AddAdvancedRecordIds(advancedRecordIdsByKey, records_by_key)
    /\ partitionKeyByRecordId' = AddPartitionKeys(partitionKeyByRecordId, store, records_by_key)
    /\ cursorHasBeenUpdated' = TRUE
    /\ unpackedCursor' =
           LET moved == {b \in Assets : records_by_key[b] # None}
           IN  [k \in DOMAIN unpackedCursor \cup {StrAssetKey(b) : b \in moved} |->
                   IF \E b \in moved : StrAssetKey(b) = k
                   THEN LET b == CHOOSE b \in moved : StrAssetKey(b) = k
                        IN  Component(
                                PartitionKeyOfRecord(store, records_by_key[b]),
                                records_by_key[b],
                                GetCursorForAsset(unpackedCursor, b)
                                    .trailing_unconsumed_partitioned_event_ids)
                   ELSE unpackedCursor[k]]
    /\ UNCHANGED <<targets, assetKeys, assetsDefsByKey, store, storedCursor, pc, cursor, advanceAllCursorsCalled,
                   fetchedInitialUnconsumedEvents, initialUnconsumedEventsById,
                   result, tick>>

\* advance_cursor(materialization_records_by_key)
AdvanceCursorWith(records_by_key) ==
    /\ pc = "evaluating"
    /\ advancedRecordIdsByKey' = AddAdvancedRecordIds(advancedRecordIdsByKey, records_by_key)
    /\ partitionKeyByRecordId' = AddPartitionKeys(partitionKeyByRecordId, store, records_by_key)
    /\ cursorHasBeenUpdated' = TRUE
    /\ UNCHANGED <<targets, assetKeys, assetsDefsByKey, store, storedCursor, pc, cursor, unpackedCursor,
                   advanceAllCursorsCalled, fetchedInitialUnconsumedEvents,
                   initialUnconsumedEventsById, result, tick>>

\* The mappings the user may pass: per asset key None or a record of that asset.
RecordsByKey(ids) ==
    {m \in [Assets -> ids \cup {None}] :
        \A a \in Assets : m[a] # None => store[m[a]].asset_key = a}

AdvanceCursor ==
    \E records_by_key \in RecordsByKey(1..Len(store)) :
        AdvanceCursorWith(records_by_key)

\* advance_all_cursors()
AdvanceAllCursors ==
    /\ pc = "evaluating"
    /\ LET materializations_by_key ==
               [a \in Assets |-> LatestMaterializationRecordByKey(store, unpackedCursor, a)]
       IN  /\ advancedRecordIdsByKey' =
                  AddAdvancedRecordIds(advancedRecordIdsByKey, materializations_by_key)
           /\ partitionKeyByRecordId' =
                  AddPartitionKeys(partitionKeyByRecordId, store, materializations_by_key)
    /\ advanceAllCursorsCalled' = TRUE
    /\ cursorHasBeenUpdated' = TRUE
    /\ UNCHANGED <<targets, assetKeys, assetsDefsByKey, store, storedCursor, pc, cursor, unpackedCursor,
                   fetchedInitialUnconsumedEvents, initialUnconsumedEventsById,
                   result, tick>>

\* evaluate_tick from the point where the user function has returned
\* user_result: _fn drains it, checks that the cursor was advanced and calls
\* update_cursor_after_evaluation; evaluate_tick validates the items and
\* returns SensorExecutionData, whose cursor the daemon stores.
FinishTickWith(user_result) ==
    /\ pc = "evaluating"
    /\ LET reaches == ReachesCursorUpdate(user_result)
           guard_raises ==
               reaches /\ CursorNotUpdatedError(user_result, cursorHasBeenUpdated)
           runs_update == reaches /\ ~guard_raises
           fetches ==
               /\ runs_update
               /\ ~advanceAllCursorsCalled
               /\ ~NoEventsMarkedAsAdvanced(advancedRecordIdsByKey)
           cached ==
               IF fetches
               THEN CacheInitialUnconsumedEvents(store, unpackedCursor,
                                                 fetchedInitialUnconsumedEvents,
                                                 initialUnconsumedEventsById)
               ELSE initialUnconsumedEventsById
           new_cursor ==
               GetCursorWithAdvances(store, cached, unpackedCursor,
                                     advancedRecordIdsByKey, partitionKeyByRecordId,
                                     advanceAllCursorsCalled)
           updated == runs_update /\ new_cursor.kind = "cursor"
           raised == runs_update /\ new_cursor.kind = "raised"
           cursor_after == IF updated THEN new_cursor.cursor ELSE cursor
           evaluation == EvaluateResult(targets, user_result.items)
           failed == guard_raises \/ raised \/ evaluation.failed
       IN  /\ cursor' = cursor_after
           /\ unpackedCursor' =
                  IF updated THEN UnpackCursor(new_cursor.cursor)
                  ELSE IF raised THEN new_cursor.unpacked
                  ELSE unpackedCursor
           /\ advancedRecordIdsByKey' =
                  IF updated THEN NoAdvancedRecords ELSE advancedRecordIdsByKey
           /\ partitionKeyByRecordId' =
                  IF updated THEN EmptyDict ELSE partitionKeyByRecordId
           /\ advanceAllCursorsCalled' =
                  IF updated THEN FALSE ELSE advanceAllCursorsCalled
           /\ fetchedInitialUnconsumedEvents' = (fetchedInitialUnconsumedEvents \/ fetches)
           /\ initialUnconsumedEventsById' = cached
           /\ pc' = IF failed THEN "failed" ELSE "done"
           /\ result' =
                  IF failed THEN NoResult
                  ELSE [returned |-> TRUE,
                        run_requests |-> evaluation.run_requests,
                        skip_message |-> evaluation.skip_message,
                        cursor |-> cursor_after]
           /\ storedCursor' = IF failed THEN storedCursor ELSE cursor_after
           /\ tick' = [tick EXCEPT
                          !.advanced = advancedRecordIdsByKey,
                          !.advance_all = advanceAllCursorsCalled,
                          !.computed = IF runs_update THEN new_cursor.kind
                                       ELSE "not_run",
                          !.user_result = user_result]
    /\ UNCHANGED <<targets, assetKeys, assetsDefsByKey, store, cursorHasBeenUpdated>>

FinishTick == \E user_result \in UserResults : FinishTickWith(user_result)

Next ==
    \/ Materialize
    \/ StartTick
    \/ AdvanceCursor
    \/ AdvanceAllCursors
    \/ FinishTick

Spec == Init /\ [][Next]_vars

\* ------------------------------------------------- the backlog cap's states
\* A log that already holds more partitions of asset_1 than the cursor may
\* keep as trailing: one event per partition, partition i at storage id i.
BacklogStore ==
    [i \in 1..(MAX_NUM_UNCONSUMED_EVENTS + ExtraEventsCap) |->
        [asset_key |-> "asset_1", partition |-> i]]

InitCap == InitWith(BacklogStore)

\* advance_cursor with records among the last CapWindow of the log.
AdvanceCursorCap ==
    \E records_by_key \in RecordsByKey((Len(store) - CapWindow + 1)..Len(store)) :
        AdvanceCursorWith(records_by_key)

NextCap ==
    \/ StartTick
    \/ AdvanceCursorCap
    \/ AdvanceAllCursors
    \/ FinishTick

SpecCap == InitCap /\ [][NextCap]_vars

\* ------------------------------------------------- properties of the engine
\* The tick has ended: evaluate_tick returned or raised.
TickEnded == pc \in {"done", "failed"}

\* The tick ended and get_cursor_with_advances returned a new cursor string.
ComputedCursor == TickEnded /\ tick.computed = "cursor"

\* An asset's component in the cursor the tick started from, in the context's
\* cursor, and in the cursor the daemon stores.
StartComponent(asset_key) ==
    GetCursorForAsset(UnpackCursor(tick.start_cursor), asset_key)

NewComponent(asset_key) == GetCursorForAsset(UnpackCursor(cursor), asset_key)

StoredComponent(asset_key) == GetCursorForAsset(UnpackCursor(storedCursor), asset_key)

TrailingOf(component) == component.trailing_unconsumed_partitioned_event_ids

\* The tick advanced records of the asset, the greatest of them beyond the
\* consumed id the tick started with.
AdvancedBeyondStart(asset_key) ==
    /\ tick.advanced[asset_key] # {}
    /\ MaxOf(tick.advanced[asset_key])
           > OrZero(StartComponent(asset_key).latest_consumed_event_id)

\* The asset's events of one partition with storage ids strictly between the
\* tick-start consumed id and the greatest id the tick advanced.
EventsBetween(asset_key, partition) ==
    {i \in 1..Len(store) :
        /\ store[i].asset_key = asset_key
        /\ store[i].partition = partition
        /\ i > OrZero(StartComponent(asset_key).latest_consumed_event_id)
        /\ i < MaxOf(tick.advanced[asset_key])}

\* The trailing map C2 describes: the tick-start entry of a partition stays
\* unless an event of the partition lies between the two ids; then the last
\* such event decides.  The partition of the greatest advanced id has no entry.
ClaimedTrailing(asset_key) ==
    LET start == TrailingOf(StartComponent(asset_key))
        advanced == tick.advanced[asset_key]
        keep == {p \in 1..NumPartitionKeys :
                    /\ p # store[MaxOf(advanced)].partition
                    /\ IF EventsBetween(asset_key, p) # {}
                       THEN MaxOf(EventsBetween(asset_key, p)) \notin advanced
                       ELSE p \in DOMAIN start}
    IN  [p \in keep |->
            IF EventsBetween(asset_key, p) # {}
            THEN MaxOf(EventsBetween(asset_key, p)) ELSE start[p]]

\* As ClaimedTrailing, but a tick-start entry whose own event the tick
\* advanced is removed too.
ExpectedTrailing(asset_key) ==
    LET start == TrailingOf(StartComponent(asset_key))
        advanced == tick.advanced[asset_key]
        keep == {p \in 1..NumPartitionKeys :
                    /\ p # store[MaxOf(advanced)].partition
                    /\ IF EventsBetween(asset_key, p) # {}
                       THEN MaxOf(EventsBetween(asset_key, p)) \notin advanced
                       ELSE p \in DOMAIN start /\ start[p] \notin advanced}
    IN  [p \in keep |->
            IF EventsBetween(asset_key, p) # {}
            THEN MaxOf(EventsBetween(asset_key, p)) ELSE start[p]]

\* C1: a tick in which no event was recorded as advanced: the cursor
\* computation reports no change, the context's cursor is the string the tick
\* started with, and so is the cursor a completed tick returns and stores.
C1_NoAdvanceKeepsCursor ==
    (TickEnded /\ \A a \in Assets : tick.advanced[a] = {})
    => /\ tick.computed \in {"none", "not_run"}
       /\ cursor = tick.start_cursor
       /\ pc = "done" => (result.cursor = tick.start_cursor
                          /\ storedCursor = tick.start_cursor)

\* A completed tick that started from a written cursor, advanced nothing and
\* reached the cursor computation.
C1_Witness ==
    /\ pc = "done"
    /\ \A a \in Assets : tick.advanced[a] = {}
    /\ tick.computed = "none"
    /\ ~tick.start_cursor.is_none
    /\ result.cursor = tick.start_cursor

\* C2 (as stated): without advance_all_cursors, when the greatest advanced id
\* of an asset exceeds its tick-start consumed id, the new trailing map is the
\* tick-start map overlaid with the events between the two ids and without
\* the partition of the greatest advanced id.
C2_TrailingFromEventsBetween ==
    \A a \in Assets :
        (ComputedCursor /\ ~tick.advance_all /\ AdvancedBeyondStart(a))
        => TrailingOf(NewComponent(a)) = ClaimedTrailing(a)

\* C2 (amended): the same, and the tick-start entries whose own event was
\* advanced in the tick are removed as well.
C2_TrailingFromStartAndEventsBetween ==
    \A a \in Assets :
        (ComputedCursor /\ ~tick.advance_all /\ AdvancedBeyondStart(a))
        => TrailingOf(NewComponent(a)) = ExpectedTrailing(a)

\* A tick that advanced beyond its start and also advanced the event of a
\* tick-start trailing entry.
C2_Witness ==
    \E a \in Assets :
        /\ ComputedCursor /\ ~tick.advance_all /\ AdvancedBeyondStart(a)
        /\ \E p \in DOMAIN TrailingOf(StartComponent(a)) :
               TrailingOf(StartComponent(a))[p] \in tick.advanced[a]
        /\ TrailingOf(NewComponent(a)) = ExpectedTrailing(a)

\* C3: when the greatest advanced id M of an asset exceeds the tick-start
\* consumed id (or none was set), the new component's consumed id is M, its
\* consumed partition is the partition of M, and that partition has no
\* trailing entry.
C3_AdvancesToGreatest ==
    \A a \in Assets :
        (ComputedCursor /\ AdvancedBeyondStart(a))
        => LET M == MaxOf(tick.advanced[a])
           IN  /\ NewComponent(a).latest_consumed_event_id = M
               /\ NewComponent(a).latest_consumed_event_partition = store[M].partition
               /\ store[M].partition \notin DOMAIN TrailingOf(NewComponent(a))

\* The tick advanced to a partitioned event M while an earlier event of M's
\* partition, not advanced, lay between the start and M.
C3_Witness ==
    \E a \in Assets :
        /\ ComputedCursor /\ ~tick.advance_all /\ AdvancedBeyondStart(a)
        /\ LET M == MaxOf(tick.advanced[a])
           IN  /\ NewComponent(a).latest_consumed_event_id = M
               /\ store[M].partition # None
               /\ EventsBetween(a, store[M].partition) \ tick.advanced[a] # {}

\* C4: the consumed id of an asset in the stored cursor never decreases, and
\* a tick whose greatest advanced id is not beyond the tick-start consumed id
\* leaves the asset's consumed id and consumed partition as they were.
C4_Step ==
    \A a \in Assets :
        /\ OrZero(StoredComponent(a).latest_consumed_event_id')
               >= OrZero(StoredComponent(a).latest_consumed_event_id)
        /\ (/\ pc = "evaluating" /\ pc' \in {"done", "failed"}
            /\ advancedRecordIdsByKey[a] # {}
            /\ MaxOf(advancedRecordIdsByKey[a])
                   <= OrZero(StoredComponent(a).latest_consumed_event_id))
           => /\ NewComponent(a).latest_consumed_event_id'
                     = StoredComponent(a).latest_consumed_event_id
              /\ NewComponent(a).latest_consumed_event_partition'
                     = StoredComponent(a).latest_consumed_event_partition

C4_ConsumedIdNeverDecreases == [][C4_Step]_vars

\* A tick rewrote the cursor after advancing only an event that is not beyond
\* the consumed id it started with.
C4_Witness ==
    \E a \in Assets :
        /\ pc = "done" /\ tick.computed = "cursor"
        /\ tick.advanced[a] # {}
        /\ MaxOf(tick.advanced[a]) < OrZero(StartComponent(a).latest_consumed_event_id)
        /\ StoredComponent(a).latest_consumed_event_id
               = StartComponent(a).latest_consumed_event_id

\* The trailing object of every component of a cursor string holds one id per
\* partition, each smaller than the component's consumed id.
WellFormedTrailing(c) ==
    \A i \in 1..Len(c.members) :
        LET cursor_list == c.members[i][2]
        IN  Len(cursor_list) = 3 =>
                /\ \A m1, m2 \in cursor_list[3] : m1[1] = m2[1] => m1 = m2
                /\ \A m \in cursor_list[3] : m[2] < cursor_list[2]

\* C5: in every cursor reachable from the empty cursor the trailing map of
\* each asset holds at most one id per partition, each id strictly smaller
\* than the asset's consumed id.
C5_TrailingBelowConsumed ==
    /\ WellFormedTrailing(storedCursor)
    /\ WellFormedTrailing(cursor)
    /\ WellFormedTrailing(result.cursor)

\* A stored cursor with a trailing entry that replaced an earlier event of
\* the same partition.
C5_Witness ==
    \E a \in Assets :
        \E p \in DOMAIN TrailingOf(StoredComponent(a)) :
            /\ TrailingOf(StoredComponent(a))[p]
                   < StoredComponent(a).latest_consumed_event_id
            /\ \E e \in 1..Len(store) :
                   /\ e < TrailingOf(StoredComponent(a))[p]
                   /\ store[e].asset_key = a
                   /\ store[e].partition = p

C7_TrailingAtMostCap ==
    \A a \in Assets :
        /\ Cardinality(DOMAIN TrailingOf(StoredComponent(a)))
               <= MAX_NUM_UNCONSUMED_EVENTS
        /\ result.returned =>
               Cardinality(DOMAIN TrailingOf(
                   GetCursorForAsset(UnpackCursor(result.cursor), a)))
                   <= MAX_NUM_UNCONSUMED_EVENTS

\* A completed tick whose new cursor holds the largest backlog the check of
\* line 1035 lets through.
C7_Witness ==
    \E a \in Assets :
        /\ pc = "done" /\ tick.computed = "cursor"
        /\ ~tick.advance_all
        /\ tick.advanced[a] # {}
        /\ Cardinality(DOMAIN TrailingOf(StoredComponent(a)))
               = MAX_NUM_UNCONSUMED_EVENTS - 1

\* C8: after a completed tick in which advance_all_cursors was called (and
\* whose cursor update ran), the trailing map of every monitored asset in the
\* resulting cursor is empty.
C8_AdvanceAllClearsEveryAsset ==
    (pc = "done" /\ tick.advance_all /\ tick.computed # "not_run")
    => \A a \in Assets : DOMAIN TrailingOf(StoredComponent(a)) = {}

\* The record is among those the cursor-filtered queries of a context built
\* from cursor string c deliver for the asset: a trailing unconsumed event or
\* a record after the consumed id.
ReturnedByQueries(c, asset_key, id) ==
    LET unpacked_cursor == UnpackCursor(c)
        cached == CacheInitialUnconsumedEvents(store, unpacked_cursor, FALSE, {})
    IN  \/ id \in Range(GetTrailingUnconsumedEvents(cached, unpacked_cursor, asset_key))
        \/ id \in Range(MaterializationRecordsForKey(store, unpacked_cursor,
                                                     asset_key, None))
        \/ id = LatestMaterializationRecordByKey(store, unpacked_cursor, asset_key)

\* C9: after a tick that completes without error, no record that was passed
\* to advance_cursor in it is returned by the queries of a tick that starts
\* from the returned cursor.
C9_AdvancedRecordsNotReturned ==
    (pc = "done" /\ ~tick.advance_all)
    => \A a \in Assets :
           \A id \in tick.advanced[a] : ~ReturnedByQueries(storedCursor, a, id)

\* latest_materialization_records_by_partition(asset_key) of a context built
\* from cursor string c returns the record.
ReturnedByPartition(c, asset_key, id) ==
    LET unpacked_cursor == UnpackCursor(c)
        cached == CacheInitialUnconsumedEvents(store, unpacked_cursor, FALSE, {})
        items == LatestMaterializationRecordsByPartition(
                     store, unpacked_cursor, cached, asset_key, FALSE)
    IN  \E i \in 1..Len(items) : items[i][2] = id

\* C10: a completed tick without advance_all_cursors keeps returning, in the
\* tick that follows, the latest materialization of a partition that the tick
\* started with as unconsumed, unless that record or a later one of the same
\* partition was passed to advance_cursor.
C10_LatestUnconsumedKept ==
    \A e \in 1..Len(store) :
        (/\ pc = "done" /\ ~tick.advance_all
         /\ IsPartitioned(store[e].asset_key)
         /\ ReturnedByPartition(tick.start_cursor, store[e].asset_key, e)
         /\ \A f \in 1..Len(store) :
                (store[f].asset_key = store[e].asset_key
                 /\ store[f].partition = store[e].partition) => f <= e
         /\ \A r \in tick.advanced[store[e].asset_key] :
                store[r].partition = store[e].partition => r < e)
        => ReturnedByPartition(storedCursor, store[e].asset_key, e)

\* C11: when evaluate_tick aborts with an error, the cursor the evaluation
\* context holds is the cursor it held when the tick started.
C11_ContextCursorKeptOnFailure ==
    pc = "failed" => cursor = tick.start_cursor

\* The user function's result holds a RunRequest or a SkipReason.
ProducesRunOrSkip(user_result) ==
    \E i \in 1..Len(user_result.items) :
        user_result.items[i].type \in {"RunRequest", "SkipReason"}

\* C12 (as stated): a tick whose user function produced a RunRequest or a
\* SkipReason, returned bare or yielded from a generator / list, and called
\* neither advance_cursor nor advance_all_cursors, fails and returns no result.
C12_ResultWithoutAdvanceFails ==
    (TickEnded /\ ~cursorHasBeenUpdated /\ ProducesRunOrSkip(tick.user_result))
    => (pc = "failed" /\ ~result.returned)

\* C12 (amended): the same for a bare RunRequest and for the items of a
\* generator / list; a bare SkipReason without an advance call completes the
\* tick with the skip message and the cursor the tick started with.
C12_YieldWithoutAdvanceFails ==
    /\ (/\ TickEnded /\ ~cursorHasBeenUpdated
        /\ ProducesRunOrSkip(tick.user_result)
        /\ tick.user_result.kind # "SkipReason")
       => /\ pc = "failed" /\ ~result.returned
          /\ cursor = tick.start_cursor /\ storedCursor = tick.start_cursor
    /\ (/\ TickEnded /\ ~cursorHasBeenUpdated
        /\ tick.user_result.kind = "SkipReason")
       => /\ pc = "done" /\ result.returned
          /\ result.run_requests = <<>> /\ result.skip_message = SkipMessage
          /\ result.cursor = tick.start_cursor

\* A tick that failed because a generator / list yielded only a SkipReason
\* and no advance call was made, while records were there to consume.
C12_Witness ==
    /\ pc = "failed" /\ ~cursorHasBeenUpdated
    /\ tick.user_result = [kind |-> "sequence", items |-> <<SkipReasonItem>>]
    /\ store # <<>>

QueryResultsOf(unpacked_cursor, fetched, cached_ids, asset_key) ==
    LET cached == CacheInitialUnconsumedEvents(store, unpacked_cursor, fetched, cached_ids)
    IN  [component |-> GetCursorForAsset(unpacked_cursor, asset_key),
         trailing |-> GetTrailingUnconsumedEvents(cached, unpacked_cursor, asset_key),
         records |-> MaterializationRecordsForKey(store, unpacked_cursor, asset_key, None),
         latest |-> LatestMaterializationRecordByKey(store, unpacked_cursor, asset_key),
         by_partition |->
             IF IsPartitioned(asset_key)
             THEN LatestMaterializationRecordsByPartition(
                      store, unpacked_cursor, cached, asset_key, FALSE)
             ELSE <<>>,
         after_cursor_partition |->
             IF IsPartitioned(asset_key)
             THEN LatestMaterializationRecordsByPartition(
                      store, unpacked_cursor, cached, asset_key, TRUE)
             ELSE <<>>]

\* What the context's queries return in the current state.
QueryResults(asset_key) ==
    QueryResultsOf(unpackedCursor, fetchedInitialUnconsumedEvents,
                   initialUnconsumedEventsById, asset_key)

\* C14: whatever advance_cursor and advance_all_cursors calls a running tick
\* has made, the context's cursor is the one the tick started with and its
\* queries return what they return in a context just built from that cursor:
\* an advance call changes no query result of the tick.
C14_AdvanceKeepsQueryResults ==
    pc = "evaluating"
    => /\ cursor = tick.start_cursor
       /\ \A a \in Assets :
              QueryResults(a)
                  = QueryResultsOf(UnpackCursor(tick.start_cursor), FALSE, {}, a)

\* A running tick that has recorded an advance request for a record its
\* queries still return.
C14_Witness ==
    \E a \in Assets :
        /\ pc = "evaluating"
        /\ advancedRecordIdsByKey[a] # {}
        /\ \E id \in advancedRecordIdsByKey[a] : id \in Range(QueryResults(a).records)
        /\ QueryResults(a).latest \in advancedRecordIdsByKey[a]

\* The tick-start cursor object after get_cursor_with_advances has run on it
\* with the tick's advance requests.
InitialCursorAfterComputation ==
    LET initial_cursor == UnpackCursor(tick.start_cursor)
        advanced_ids == UNION {tick.advanced[a] : a \in Assets}
    IN  GetCursorWithAdvances(
            store,
            CacheInitialUnconsumedEvents(store, initial_cursor, FALSE, {}),
            initial_cursor, tick.advanced,
            [id \in advanced_ids |-> PartitionKeyOfRecord(store, id)],
            tick.advance_all).unpacked

\* C15: after the cursor computation of a tick, whether it wrote a new cursor
\* or raised the backlog error, every component of the cursor object the tick
\* started with has the value decoded from the tick-start cursor string; after
\* the error that object is still the context's cursor.
C15_InitialCursorUntouched ==
    (TickEnded /\ tick.computed \in {"cursor", "raised"})
    => /\ InitialCursorAfterComputation = UnpackCursor(tick.start_cursor)
       /\ tick.computed = "raised" => unpackedCursor = UnpackCursor(tick.start_cursor)

\* ------------------------------------------------------ the codec's states
\* The orders in which a dict with the given keys may hold them.
KeyOrders(keys) == {s \in [1..Cardinality(keys) -> keys] : Range(s) = keys}

\* json.dumps(self._cursor_component_by_asset_key): the members in the
\* dict's order.
GetStringifiedCursor(unpacked_cursor, keys) ==
    JsonCursor([i \in 1..Len(keys) |->
                   <<keys[i], DumpComponent(unpacked_cursor[keys[i]])>>])

\* The well-formed components: an optional partition key, an optional event
\* id and a map of partition key to event id.
WellFormedComponents ==
    {Component(partition, event_id, trailing) :
        partition \in {None} \cup 1..CodecPartitions,
        event_id \in {None} \cup 1..CodecMaxId,
        trailing \in UNION {[ps -> 1..CodecMaxId] : ps \in SUBSET (1..CodecPartitions)}}

\* The well-formed cursor maps over the monitored assets' keys.
WellFormedCursorMaps ==
    UNION {[ks -> WellFormedComponents] : ks \in SUBSET {StrAssetKey(a) : a \in Assets}}

\* A cursor object holding a well-formed map, not yet written as a string.
InitCodec ==
    /\ unpackedCursor \in WellFormedCursorMaps
    /\ store = <<>>
    /\ storedCursor = NoCursor
    /\ pc = "idle"
    /\ cursor = NoCursor
    /\ advancedRecordIdsByKey = NoAdvancedRecords
    /\ partitionKeyByRecordId = EmptyDict
    /\ advanceAllCursorsCalled = FALSE
    /\ cursorHasBeenUpdated = FALSE
    /\ fetchedInitialUnconsumedEvents = FALSE
    /\ initialUnconsumedEventsById = {}
    /\ result = NoResult
    /\ targets = Targets
    /\ assetKeys = AssetKeys
    /\ assetsDefsByKey = AssetsDefsByKey
    /\ tick = NoTick

\* get_stringified_cursor(): the map is written as the cursor string that is
\* handed on.
StringifyCursor ==
    /\ pc = "idle"
    /\ \E keys \in KeyOrders(DOMAIN unpackedCursor) :
           storedCursor' = GetStringifiedCursor(unpackedCursor, keys)
    /\ pc' = "done"
    /\ UNCHANGED <<targets, assetKeys, assetsDefsByKey, store, ctxVars, result, tick>>

\* A context is built from the string written.
LoadStringifiedCursor == pc = "done" /\ StartTick

NextCodec ==
    \/ StringifyCursor
    \/ LoadStringifiedCursor

SpecCodec == InitCodec /\ [][NextCodec]_vars

\* Building a context from the encoding of the map leaves the components as
\* they were in the map.
C16_Step ==
    (pc = "done" /\ pc' = "evaluating")
    => /\ unpackedCursor' = unpackedCursor
       /\ \A a \in Assets :
              StrAssetKey(a) \in DOMAIN unpackedCursor
              => GetCursorForAsset(unpackedCursor', a) = unpackedCursor[StrAssetKey(a)]

\* C16: decoding the encoding of a well-formed cursor map m gives m back:
\* MultiAssetSensorContextCursor(json.dumps(m)) holds the components of m.
C16_DecodeEncodeIsIdentity == [][C16_Step]_vars

\* A context built from the encoding of a map that holds, for both assets,
\* components with a partition, an id and trailing entries of two partitions.
C16_Witness ==
    /\ pc = "evaluating"
    /\ ~tick.start_cursor.is_none
    /\ \A a \in Assets :
           /\ StrAssetKey(a) \in DOMAIN unpackedCursor
           /\ GetCursorForAsset(unpackedCursor, a).latest_consumed_event_id # None
           /\ Cardinality(DOMAIN TrailingOf(GetCursorForAsset(unpackedCursor, a))) = 2
    /\ GetCursorForAsset(unpackedCursor, "asset_1")
           # GetCursorForAsset(unpackedCursor, "asset_2")

\* ------------------------------------------- cursors written by other engines
\* A member of the persisted JSON object whose value is not a list but a
\* single number is held as <<key, number, "scalar">>.
IsScalarMember(member) == Len(member) = 3

RECURSIVE LoadCursorRaises(_)
\* Whether the loop of MultiAssetSensorContextCursor.__init__ raises: len() of
\* a number is a TypeError; a list of another length ends the loop before the
\* members that follow are looked at.
LoadCursorRaises(members) ==
    IF members = <<>> THEN FALSE
    ELSE IF IsScalarMember(Head(members)) THEN TRUE
    ELSE IF Len(Head(members)[2]) # 3 THEN FALSE
    ELSE LoadCursorRaises(Tail(members))

\* Values of a persisted member that are no 3-field list: a single number
\* per key, and lists of 0, 1, 2 and 4 fields.
ForeignMembers(key) ==
    {<<key, id, "scalar">> : id \in 1..CodecMaxId}
    \cup {<<key, list>> : list \in {<<>>, <<None, 1, {}, 1>>}}
    \cup {<<key, <<id>>>> : id \in 1..CodecMaxId}
    \cup {<<key, <<None, id>>>> : id \in 1..CodecMaxId}

\* The 3-field lists of components with a consumed id.
WellFormedMembers(key) ==
    {<<key, DumpComponent(c)>> :
        c \in {w \in WellFormedComponents : w.latest_consumed_event_id # None}}

\* The persisted objects of one or two members of which at least one is
\* foreign.
ForeignCursors ==
    LET keys == {StrAssetKey(a) : a \in Assets}
        members(k) == ForeignMembers(k) \cup WellFormedMembers(k)
    IN  {JsonCursor(<<m>>) : m \in UNION {ForeignMembers(k) : k \in keys}}
        \cup {JsonCursor(<<m1, m2>>) :
                 m1 \in members(StrAssetKey(AssetKeys[1])), m2 \in ForeignMembers(StrAssetKey(AssetKeys[2]))}
        \cup {JsonCursor(<<m1, m2>>) :
                 m1 \in ForeignMembers(StrAssetKey(AssetKeys[1])), m2 \in WellFormedMembers(StrAssetKey(AssetKeys[2]))}
        \cup {JsonCursor(<<m2, m1>>) :
                 m1 \in members(StrAssetKey(AssetKeys[1])), m2 \in ForeignMembers(StrAssetKey(AssetKeys[2]))}
        \cup {JsonCursor(<<m2, m1>>) :
                 m1 \in ForeignMembers(StrAssetKey(AssetKeys[1])), m2 \in WellFormedMembers(StrAssetKey(AssetKeys[2]))}

\* The sensor finds a cursor another engine persisted.
InitForeign ==
    /\ storedCursor \in ForeignCursors
    /\ store = <<>>
    /\ pc = "idle"
    /\ cursor = NoCursor
    /\ unpackedCursor = UnpackCursor(NoCursor)
    /\ advancedRecordIdsByKey = NoAdvancedRecords
    /\ partitionKeyByRecordId = EmptyDict
    /\ advanceAllCursorsCalled = FALSE
    /\ cursorHasBeenUpdated = FALSE
    /\ fetchedInitialUnconsumedEvents = FALSE
    /\ initialUnconsumedEventsById = {}
    /\ result = NoResult
    /\ targets = Targets
    /\ assetKeys = AssetKeys
    /\ assetsDefsByKey = AssetsDefsByKey
    /\ tick = NoTick

\* MultiAssetSensorEvaluationContext.__init__ on the persisted cursor: the
\* context is built, or the constructor raises.
LoadPersistedCursor ==
    /\ pc = "idle"
    /\ \/ /\ LoadCursorRaises(storedCursor.members)
          /\ pc' = "failed"
          /\ UNCHANGED <<targets, assetKeys, assetsDefsByKey, store, storedCursor, ctxVars, result, tick>>
       \/ /\ ~LoadCursorRaises(storedCursor.members)
          /\ StartTick

NextForeign == LoadPersistedCursor

SpecForeign == InitForeign /\ [][NextForeign]_vars

\* C17: loading a persisted cursor that is not a map of asset key to 3-field
\* list does not raise and gives every asset the component (None, None, {}).
C17_ForeignCursorLoadsEmpty ==
    pc # "idle"
    => /\ pc = "evaluating"
       /\ \A a \in Assets :
              GetCursorForAsset(unpackedCursor, a) = Component(None, None, EmptyDict)

\* --------------------------------------------- sensors with other targets
\* A sensor declared with no, one or two target jobs, on a log of one record.
InitTargets ==
    /\ targets \in TargetConfigs
    /\ assetKeys = AssetKeys
    /\ assetsDefsByKey = AssetsDefsByKey
    /\ store = <<[asset_key |-> "asset_1", partition |-> 1]>>
    /\ storedCursor = NoCursor
    /\ pc = "idle"
    /\ cursor = NoCursor
    /\ unpackedCursor = UnpackCursor(NoCursor)
    /\ advancedRecordIdsByKey = NoAdvancedRecords
    /\ partitionKeyByRecordId = EmptyDict
    /\ advanceAllCursorsCalled = FALSE
    /\ cursorHasBeenUpdated = FALSE
    /\ fetchedInitialUnconsumedEvents = FALSE
    /\ initialUnconsumedEventsById = {}
    /\ result = NoResult
    /\ tick = NoTick

\* evaluate_tick on a result whose RunRequests carry any of the job names.
FinishTickAnyJobName ==
    \E user_result \in UserResultsWith(AnyJobNames) : FinishTickWith(user_result)

NextTargets ==
    \/ StartTick
    \/ AdvanceAllCursors
    \/ FinishTickAnyJobName

SpecTargets == InitTargets /\ [][NextTargets]_vars

\* C18: no result evaluate_tick returns has both a non-empty list of run
\* requests and a skip message.
C18_NeverRunRequestsAndSkip ==
    result.returned
    => ~(result.run_requests # <<>> /\ result.skip_message # "None")

\* Ticks of a two-job sensor returned: this one two run requests and no skip
\* message, from a list the user function yielded.
C18_Witness ==
    /\ pc = "done" /\ result.returned
    /\ Len(targets) = 2
    /\ tick.user_result.kind = "sequence"
    /\ Len(result.run_requests) = 2
    /\ result.skip_message = "None"

\* The user function's result holds an item of the type.
HasItemOfType(user_result, type) ==
    \E i \in 1..Len(user_result.items) : user_result.items[i].type = type

\* C19: a tick whose user function's result holds both a SkipReason and a
\* RunRequest fails: evaluate_tick returns no result for it.
C19_SkipWithRunRequestFails ==
    (/\ TickEnded
     /\ HasItemOfType(tick.user_result, "SkipReason")
     /\ HasItemOfType(tick.user_result, "RunRequest"))
    => (pc = "failed" /\ ~result.returned)

\* A failed tick that had advanced its cursor and whose list held a
\* SkipReason and a RunRequest the sensor's single target accepts.
C19_Witness ==
    /\ pc = "failed"
    /\ cursorHasBeenUpdated
    /\ Len(targets) = 1
    /\ tick.user_result.items = <<SkipReasonItem, RunRequestItem(NoJobName)>>

\* The RunRequest carries no job name: None or the empty string.
CarriesNoJobName(run_request) == run_request.job_name \in {NoJobName, EmptyJobName}

\* The RunRequest fits the sensor's targets: it names a declared target job,
\* or it carries no job name and the sensor has exactly one target.
FitsTargets(run_request) ==
    /\ targets # <<>>
    /\ \/ ~CarriesNoJobName(run_request) /\ run_request.job_name \in Range(targets)
       \/ CarriesNoJobName(run_request) /\ Len(targets) = 1

\* C20: evaluate_tick returns run requests only if every one of them fits the
\* sensor's targets, and a tick whose result holds a RunRequest that does not
\* fit them fails.
C20_RunRequestsFitTargets ==
    /\ result.returned
       => \A i \in 1..Len(result.run_requests) : FitsTargets(result.run_requests[i])
    /\ (/\ TickEnded
        /\ \E i \in 1..Len(tick.user_result.items) :
               /\ tick.user_result.items[i].type = "RunRequest"
               /\ ~FitsTargets(tick.user_result.items[i]))
       => pc = "failed"

\* The user function produced nothing: it returned None, an empty sequence,
\* or a sequence whose single item is None.
ProducesNothing(user_result) ==
    \/ user_result.kind = "None"
    \/ user_result.kind = "sequence" /\ user_result.items \in {<<>>, <<NoneItem>>}

\* C21: a tick whose user function produced nothing completes: evaluate_tick
\* returns no run requests and the skip message "Sensor function returned an
\* empty result".
C21_EmptyResultIsSkip ==
    (TickEnded /\ ProducesNothing(tick.user_result))
    => /\ pc = "done" /\ result.returned
       /\ result.run_requests = <<>>
       /\ result.skip_message = EmptyResultMessage

\* ------------------------------------------------ one context, many ticks
\* evaluate_tick is called with a context that has already served a tick
\* (or with the context as built): nothing of the context is reset.
EvaluateTickOnContext ==
    /\ pc \in {"idle", "done", "failed"}
    /\ pc' = "evaluating"
    /\ result' = NoResult
    /\ tick' = [NoTick EXCEPT !.start_cursor = cursor]
    /\ UNCHANGED <<targets, assetKeys, assetsDefsByKey, store, storedCursor, ctxVars>>

\* get_trailing_unconsumed_events(asset_key) as the context stands: the
\* returned record ids.
TrailingUnconsumedEventsCall(asset_key) ==
    GetTrailingUnconsumedEvents(
        CacheInitialUnconsumedEvents(store, unpackedCursor,
                                     fetchedInitialUnconsumedEvents,
                                     initialUnconsumedEventsById),
        unpackedCursor, asset_key)

\* The user calls get_trailing_unconsumed_events: the first call on a context
\* fills the cache of initial unconsumed events.
GetTrailingUnconsumedEventsCalled ==
    /\ pc = "evaluating"
    /\ ~fetchedInitialUnconsumedEvents
    /\ fetchedInitialUnconsumedEvents' = TRUE
    /\ initialUnconsumedEventsById' =
           CacheInitialUnconsumedEvents(store, unpackedCursor,
                                        fetchedInitialUnconsumedEvents,
                                        initialUnconsumedEventsById)
    /\ UNCHANGED <<targets, assetKeys, assetsDefsByKey, store, storedCursor, pc, cursor, unpackedCursor,
                   advancedRecordIdsByKey, partitionKeyByRecordId,
                   advanceAllCursorsCalled, cursorHasBeenUpdated, result, tick>>

\* The log the context is built on: two partitions of asset_1 and a record
\* of asset_2.
ReuseStore ==
    <<[asset_key |-> "asset_1", partition |-> 1],
      [asset_key |-> "asset_1", partition |-> 2],
      [asset_key |-> "asset_2", partition |-> None]>>

InitReuse == InitWith(ReuseStore)

NextReuse ==
    \/ EvaluateTickOnContext
    \/ GetTrailingUnconsumedEventsCalled
    \/ AdvanceCursor
    \/ AdvanceAllCursors
    \/ FinishTick

SpecReuse == InitReuse /\ [][NextReuse]_vars

\* The ids of the asset's current trailing unconsumed map.
CurrentTrailingIds(asset_key) ==
    Range(GetCursorForAsset(unpackedCursor, asset_key)
              .trailing_unconsumed_partitioned_event_ids)

\* C22: whenever it is called on a context, before or after the cursor
\* computation has replaced the context's cursor,
\* get_trailing_unconsumed_events(asset) returns the stored events whose ids
\* are the values of the asset's current trailing unconsumed map, in
\* ascending id order.
C22_TrailingEventsAreCurrent ==
    \A a \in Assets :
        TrailingUnconsumedEventsCall(a)
            = Ascending(CurrentTrailingIds(a) \cap (1..Len(store)))

\* The materializations of the asset in the log that are newer than the
\* consumed id of the context's cursor (all of them when the id is unset).
EventsAfterConsumed(asset_key) ==
    LET consumed == GetCursorForAsset(unpackedCursor, asset_key).latest_consumed_event_id
    IN  {i \in 1..Len(store) :
            /\ store[i].asset_key = asset_key
            /\ (consumed # None => i > consumed)}

\* C23: latest_materialization_records_by_key maps each key to the
\* materialization of that asset with the greatest storage id among those
\* strictly greater than the key's consumed id (all of them when the id is
\* unset), to None when there is none, and never to a trailing unconsumed
\* event.
C23_LatestRecordIsNewestAfterConsumed ==
    \A a \in Assets :
        LET latest == LatestMaterializationRecordByKey(store, unpackedCursor, a)
        IN  /\ EventsAfterConsumed(a) = {} => latest = None
            /\ EventsAfterConsumed(a) # {}
               => /\ latest \in EventsAfterConsumed(a)
                  /\ \A i \in EventsAfterConsumed(a) : i <= latest
            /\ latest \notin CurrentTrailingIds(a)

\* A tick on a cursor with a consumed id and a trailing event for asset_1,
\* with a newer materialization in the log: advance_all_cursors has recorded
\* the newer one.
C23_Witness ==
    /\ pc = "evaluating"
    /\ advanceAllCursorsCalled
    /\ GetCursorForAsset(unpackedCursor, "asset_1").latest_consumed_event_id # None
    /\ CurrentTrailingIds("asset_1") # {}
    /\ EventsAfterConsumed("asset_1") # {}
    /\ advancedRecordIdsByKey["asset_1"] = {MaxOf(EventsAfterConsumed("asset_1"))}

\* latest_materialization_records_by_partition(asset_key) as the context
\* stands: the invariant violation for an asset without partitions, else the
\* items of the returned OrderedDict.
LatestMaterializationRecordsByPartitionCall(asset_key) ==
    IF ~IsPartitioned(asset_key)
    THEN [kind |-> "DagsterInvariantViolationError", items |-> <<>>]
    ELSE [kind |-> "returned",
          items |-> LatestMaterializationRecordsByPartition(
                        store, unpackedCursor,
                        CacheInitialUnconsumedEvents(store, unpackedCursor,
                                                     fetchedInitialUnconsumedEvents,
                                                     initialUnconsumedEventsById),
                        asset_key, FALSE)]

\* The unconsumed events of a partition: its trailing unconsumed event and
\* its events after the consumed id.
UnconsumedEventsOfPartition(asset_key, partition) ==
    {i \in CurrentTrailingIds(asset_key) \cup EventsAfterConsumed(asset_key) :
        store[i].partition = partition}

\* The items map every partition with an unconsumed event to the greatest
\* such event, in ascending order of the mapped ids.
MapsPartitionsToLatestUnconsumed(asset_key, items) ==
    /\ \A p \in 1..NumPartitionKeys :
           UnconsumedEventsOfPartition(asset_key, p) # {}
           => \E k \in 1..Len(items) :
                  items[k] = <<p, MaxOf(UnconsumedEventsOfPartition(asset_key, p))>>
    /\ \A k \in 1..Len(items) :
           /\ UnconsumedEventsOfPartition(asset_key, items[k][1]) # {}
           /\ \A j \in 1..Len(items) : j < k => items[j][2] < items[k][2]

\* C24: latest_materialization_records_by_partition(asset) maps each
\* partition that has an unconsumed event (its trailing unconsumed event or
\* an event after the consumed id) to the greatest-id such event, iterates
\* the partitions in ascending order of the mapped ids, and fails with an
\* invariant violation for an asset without partitions.  Stated for the calls
\* the user function can make during a tick.
C24_LatestByPartition ==
    pc = "evaluating" =>
        \A a \in Assets :
            LET call == LatestMaterializationRecordsByPartitionCall(a)
            IN  IF IsPartitioned(a)
                THEN /\ call.kind = "returned"
                     /\ MapsPartitionsToLatestUnconsumed(a, call.items)
                ELSE call.kind = "DagsterInvariantViolationError"

\* An asset key the sensor does not monitor.
UnmonitoredAsset == "asset_3"

RequestableAssets == Assets \cup {UnmonitoredAsset}

\* materialization_records_for_key(asset_key, limit) as the context stands:
\* the invalid-invocation error for a key the sensor does not monitor, else
\* the returned record ids.
MaterializationRecordsForKeyCall(asset_key, limit) ==
    IF asset_key \notin Assets
    THEN [kind |-> "DagsterInvalidInvocationError", records |-> <<>>]
    ELSE [kind |-> "returned",
          records |-> MaterializationRecordsForKey(store, unpackedCursor, asset_key, limit)]

\* records are the first `limit` of the events, in ascending id order
IsFirstOf(records, events, limit) ==
    /\ Len(records) = (IF Cardinality(events) < limit THEN Cardinality(events) ELSE limit)
    /\ \A k \in 1..Len(records) :
           /\ records[k] \in events
           /\ \A j \in 1..Len(records) : j < k => records[j] < records[k]
    /\ \A i \in events \ Range(records) : \A k \in 1..Len(records) : records[k] < i

\* C25: materialization_records_for_key(asset, limit) returns the first
\* `limit` materializations of the asset with a storage id greater than its
\* consumed id, in ascending id order, and fails with an invalid-invocation
\* error for an asset the sensor does not track.
C25_FirstRecordsAfterConsumed ==
    \A a \in RequestableAssets : \A limit \in 1..MaxEvents :
        LET call == MaterializationRecordsForKeyCall(a, limit)
        IN  IF a \in Assets
            THEN /\ call.kind = "returned"
                 /\ IsFirstOf(call.records, EventsAfterConsumed(a), limit)
            ELSE call.kind = "DagsterInvalidInvocationError"

\* During a tick on a cursor with a consumed id for asset_1 the log holds two
\* newer materializations of it; limit 1 returns the older of them, which the
\* tick has advanced to.
C25_Witness ==
    /\ pc = "evaluating"
    /\ GetCursorForAsset(unpackedCursor, "asset_1").latest_consumed_event_id # None
    /\ Cardinality(EventsAfterConsumed("asset_1")) = 2
    /\ MaterializationRecordsForKeyCall("asset_1", 1).records
           = <<MinOf(EventsAfterConsumed("asset_1"))>>
    /\ advancedRecordIdsByKey["asset_1"] = {MinOf(EventsAfterConsumed("asset_1"))}

\* ------------------------------------------ the context's utility methods
\* The partition keys of the utility specification.

UtilPartitionKeys == [i \in 1..NumPartitions |-> i]

\* An asset without partitions_def, and definitions of either kind with the
\* partition keys or with no partition key yet.
UtilPartitionsDefs ==
    {NoPartitionsDef,
     StaticPartitionsDef(UtilPartitionKeys), StaticPartitionsDef(<<>>),
     TimeWindowPartitionsDef(UtilPartitionKeys), TimeWindowPartitionsDef(<<>>)}

\* The records a log may hold for the drawn asset definitions.
UtilRecords(assets_defs) ==
    {[asset_key |-> a, partition |-> p] :
        a \in Assets, p \in {None} \cup 1..NumPartitions}
    \cap {r \in [asset_key : Assets, partition : {None} \cup 1..NumPartitions] :
             IF IsPartitionsDefinition(assets_defs[r.asset_key])
             THEN r.partition \in Range(assets_defs[r.asset_key].keys)
             ELSE r.partition = None}

UtilStores(assets_defs) ==
    UNION {[1..n -> UtilRecords(assets_defs)] : n \in 0..MaxUtilEvents}

\* The lists a cursor written by an earlier tick may hold for the asset: the
\* default component, or one of the asset's records consumed with nothing
\* trailing.
UtilCursorLists(st, asset_key) ==
    {DumpComponent(Component(None, None, EmptyDict))}
    \cup {DumpComponent(Component(st[i].partition, i, EmptyDict)) :
             i \in {j \in 1..Len(st) : st[j].asset_key = asset_key}}

UtilCursors(st, asset_keys) ==
    {NoCursor}
    \cup {JsonCursor([k \in 1..Len(asset_keys) |->
                         <<StrAssetKey(asset_keys[k]), lists[k]>>]) :
             lists \in {l \in [1..Len(asset_keys) -> UNION {UtilCursorLists(st, a) : a \in Assets}] :
                           \A k \in 1..Len(asset_keys) :
                               l[k] \in UtilCursorLists(st, asset_keys[k])}}

\* A context built for a sensor that monitors one or both assets of the
\* repository, on a log and a cursor left by earlier ticks.
InitUtil ==
    /\ assetKeys \in {<<"asset_1">>, AssetKeys}
    /\ assetsDefsByKey \in [Assets -> UtilPartitionsDefs]
    /\ store \in UtilStores(assetsDefsByKey)
    /\ storedCursor \in UtilCursors(store, assetKeys)
    /\ cursor = storedCursor
    /\ unpackedCursor = UnpackCursor(storedCursor)
    /\ pc = "evaluating"
    /\ advancedRecordIdsByKey = NoAdvancedRecords
    /\ partitionKeyByRecordId = EmptyDict
    /\ advanceAllCursorsCalled = FALSE
    /\ cursorHasBeenUpdated = FALSE
    /\ fetchedInitialUnconsumedEvents = FALSE
    /\ initialUnconsumedEventsById = {}
    /\ result = NoResult
    /\ targets = Targets
    /\ tick = [NoTick EXCEPT !.start_cursor = storedCursor]

\* The user function calls a utility method, the first of the tick: result
\* holds the call and its outcome.
UtilCall(name, args, outcome) ==
    /\ pc = "evaluating"
    /\ result = NoResult
    /\ result' = [call |-> name, args |-> args, outcome |-> outcome]
    /\ UNCHANGED <<targets, assetKeys, assetsDefsByKey, store, storedCursor, pc,
                   ctxVars, tick>>

\* The asset_key argument left out (None).
NoAssetKey == "None"

Raised(error) == [kind |-> error, value |-> None]

Returned(value) == [kind |-> "returned", value |-> value]

\* get_cursor_partition(asset_key)
GetCursorPartition(asset_keys, unpacked_cursor, asset_key) ==
    IF asset_key \notin Range(asset_keys)
    THEN Raised("DagsterInvalidInvocationError")
    ELSE IF asset_key # NoAssetKey
    THEN Returned(GetCursorForAsset(unpacked_cursor, asset_key)
                      .latest_consumed_event_partition)
    ELSE IF Len(asset_keys) = 1
    THEN Returned(GetCursorForAsset(unpacked_cursor, asset_keys[1])
                      .latest_consumed_event_partition)
    ELSE Raised("DagsterInvalidInvocationError")

GetCursorPartitionCalled ==
    \E asset_key \in {NoAssetKey} \cup RequestableAssets :
        UtilCall("get_cursor_partition", <<asset_key>>,
                 GetCursorPartition(assetKeys, unpackedCursor, asset_key))

\* Variant: only the records after the asset's consumed id are counted.
CountedRecords_AfterCursor(asset_key) ==
    {i \in 1..Len(store) :
        /\ store[i].asset_key = asset_key
        /\ asset_key \in Assets
           => i > GetCursorForAsset(unpackedCursor, asset_key).latest_consumed_event_id}

\* The records instance.get_materialization_count_by_partition([asset_key])
\* counts: every materialization of the asset in the log.
CountedRecords(asset_key) ==
    {i \in 1..Len(store) : store[i].asset_key = asset_key}

\* instance.get_materialization_count_by_partition([asset_key]).get(asset_key, {})
MaterializationCountByPartition(asset_key) ==
    [p \in {store[i].partition : i \in CountedRecords(asset_key)} \ {None} |->
        Cardinality({i \in CountedRecords(asset_key) : store[i].partition = p})]

\* The partitions argument: left out (None) or a list of partition keys.
NoPartitions == [given |-> FALSE, keys |-> <<>>]

Partitions(keys) == [given |-> TRUE, keys |-> keys]

\* all_partitions_materialized(asset_key, partitions)
AllPartitionsMaterialized(asset_keys, assets_defs, counts, asset_key, partitions) ==
    IF partitions.given /\ Len(partitions.keys) = 0
    THEN Raised("DagsterInvalidInvocationError")
    ELSE IF ~partitions.given /\ asset_key \notin Range(asset_keys)
    THEN Raised("DagsterInvariantViolationError")
    ELSE IF ~partitions.given /\ ~IsPartitionsDefinition(assets_defs[asset_key])
    THEN Raised("DagsterInvariantViolationError")
    ELSE LET keys == IF partitions.given THEN partitions.keys
                     ELSE assets_defs[asset_key].keys
         IN  Returned(\A k \in 1..Len(keys) :
                          (IF keys[k] \in DOMAIN counts THEN counts[keys[k]] ELSE 0) # 0)

\* The partition lists the user may name; NumPartitions + 1 is no partition
\* key of any asset.
PartitionLists ==
    {<<>>, <<NumPartitions + 1>>}
    \cup {<<p>> : p \in 1..NumPartitions}
    \cup {<<p, q>> : p \in 1..NumPartitions, q \in 1..NumPartitions}

AllPartitionsMaterializedCalled ==
    \E asset_key \in RequestableAssets :
        \E partitions \in {NoPartitions} \cup {Partitions(keys) : keys \in PartitionLists} :
            UtilCall("all_partitions_materialized", <<asset_key, partitions>>,
                     AllPartitionsMaterialized(
                         assetKeys, assetsDefsByKey,
                         MaterializationCountByPartition(asset_key),
                         asset_key, partitions))

\* A returned value together with whether warnings.warn was called.
ReturnedWith(value, warned) == [kind |-> "returned", value |-> value, warned |-> warned]

\* Variant: the invalid range is an error for time-window definitions only.
InvalidRangeRaises_ForTimeWindow(to_partitions_def) ==
    to_partitions_def.kind = "TimeWindowPartitionsDefinition"

\* not isinstance(to_partitions_def, TimeWindowPartitionsDefinition): an
\* invalid downstream range is an error; otherwise it is only warned about.
InvalidRangeRaises(to_partitions_def) ==
    to_partitions_def.kind # "TimeWindowPartitionsDefinition"

\* TimeWindowPartitionsDefinition.get_partition_keys_in_range: the
\* definition's keys from range.start to range.end.
GetPartitionKeysInRange(partitions_def, range) ==
    SelectSeq(partitions_def.keys, LAMBDA k : range.start <= k /\ k <= range.end)

\* partition_keys.index(key), for a key of the list (ValueError otherwise)
IndexOf(partition_keys, key) ==
    CHOOSE i \in 1..Len(partition_keys) : partition_keys[i] = key

\* get_downstream_partition_keys(partition_key, from_asset_key, to_asset_key),
\* where range is what the partition mapping returns for partition_key.
GetDownstreamPartitionKeys(assets_defs, from_asset_key, to_asset_key, range) ==
    IF to_asset_key \notin DOMAIN assets_defs \/ from_asset_key \notin DOMAIN assets_defs
    THEN Raised("DagsterInvalidInvocationError")
    ELSE IF ~IsPartitionsDefinition(assets_defs[to_asset_key])
    THEN Raised("DagsterInvalidInvocationError")
    ELSE IF ~IsPartitionsDefinition(assets_defs[from_asset_key])
    THEN Raised("DagsterInvalidInvocationError")
    ELSE LET to_partitions_def == assets_defs[to_asset_key]
             partition_keys == to_partitions_def.keys
             invalid == \/ range.start \notin Range(partition_keys)
                        \/ range.end \notin Range(partition_keys)
         IN  IF invalid /\ InvalidRangeRaises(to_partitions_def)
             THEN Raised("DagsterInvalidInvocationError")
             ELSE IF to_partitions_def.kind = "TimeWindowPartitionsDefinition"
             THEN ReturnedWith(GetPartitionKeysInRange(to_partitions_def, range), invalid)
             ELSE IF invalid
             THEN Raised("ValueError")
             ELSE ReturnedWith(
                      SubSeq(partition_keys, IndexOf(partition_keys, range.start),
                             IndexOf(partition_keys, range.end)),
                      FALSE)

\* The ranges a partition mapping may return: endpoints among the partition
\* keys and the keys just outside them.
MappedRanges ==
    {[start |-> a, end |-> b] : a \in 0..(NumPartitions + 1), b \in 0..(NumPartitions + 1)}
    \cap {r \in [start : 0..(NumPartitions + 1), end : 0..(NumPartitions + 1)] :
             r.start <= r.end}

GetDownstreamPartitionKeysCalled ==
    \E from_asset_key \in RequestableAssets, to_asset_key \in RequestableAssets :
        \E partition_key \in 1..NumPartitions, range \in MappedRanges :
            /\ from_asset_key \in DOMAIN assetsDefsByKey
               => partition_key \in Range(assetsDefsByKey[from_asset_key].keys)
            /\ UtilCall("get_downstream_partition_keys",
                        <<partition_key, from_asset_key, to_asset_key, range>>,
                        GetDownstreamPartitionKeys(assetsDefsByKey, from_asset_key,
                                                   to_asset_key, range))

NextUtil ==
    \/ GetCursorPartitionCalled
    \/ AllPartitionsMaterializedCalled
    \/ GetDownstreamPartitionKeysCalled

SpecUtil == InitUtil /\ [][NextUtil]_vars

\* The consumed partition marker of the asset's component in the context's
\* cursor.
ConsumedPartitionOf(asset_key) ==
    GetCursorForAsset(unpackedCursor, asset_key).latest_consumed_event_partition

CalledWith(name) == "call" \in DOMAIN result /\ result.call = name

\* C26: get_cursor_partition without an asset key returns the consumed
\* partition marker of the single tracked asset when the sensor tracks one
\* asset and fails with an invalid-invocation error when it tracks more;
\* with a tracked key it returns that key's consumed partition marker.
C26_CursorPartition ==
    CalledWith("get_cursor_partition") =>
        LET asset_key == result.args[1]
        IN  /\ asset_key = NoAssetKey /\ Len(assetKeys) = 1
               => result.outcome = Returned(ConsumedPartitionOf(assetKeys[1]))
            /\ asset_key = NoAssetKey /\ Len(assetKeys) > 1
               => result.outcome.kind = "DagsterInvalidInvocationError"
            /\ asset_key \in Range(assetKeys)
               => result.outcome = Returned(ConsumedPartitionOf(asset_key))

\* The partitions a returning all_partitions_materialized call checks: the
\* named ones, or the defined ones when none is named.
CheckedPartitions(asset_key, partitions) ==
    IF partitions.given THEN Range(partitions.keys)
    ELSE Range(assetsDefsByKey[asset_key].keys)

\* The partitions of the asset with a materialization anywhere in the log.
EverMaterialized(asset_key) ==
    {store[i].partition : i \in {j \in 1..Len(store) : store[j].asset_key = asset_key}}

AllPartitionsMaterializedReturned ==
    CalledWith("all_partitions_materialized") /\ result.outcome.kind = "returned"

\* C27 as claimed: the value depends on the log only, it is true iff every
\* checked partition was ever materialized, and it is false for an asset
\* without any materialization.
C27_ValueFromLogFalseWhenNone ==
    AllPartitionsMaterializedReturned =>
        LET a == result.args[1]
            partitions == result.args[2]
        IN  /\ result.outcome.value
                   = (CheckedPartitions(a, partitions) \subseteq EverMaterialized(a))
            /\ EverMaterialized(a) = {} => result.outcome.value = FALSE

\* C27: all_partitions_materialized(asset, partitions), when it returns,
\* does not depend on the cursor: its value is determined by the log and the
\* arguments, true iff every named partition (every defined partition when
\* none is named) was ever materialized; so for an asset without any
\* materialization it is false exactly when some partition is checked.
C27_ValueFromLog ==
    AllPartitionsMaterializedReturned =>
        LET a == result.args[1]
            partitions == result.args[2]
        IN  /\ result.outcome.value
                   = (CheckedPartitions(a, partitions) \subseteq EverMaterialized(a))
            /\ EverMaterialized(a) = {}
               => result.outcome.value = (CheckedPartitions(a, partitions) = {})

\* The call returned true for partitions whose materializations the cursor
\* has already consumed.
C27_Witness ==
    /\ AllPartitionsMaterializedReturned
    /\ result.outcome.value
    /\ CheckedPartitions(result.args[1], result.args[2]) # {}
    /\ result.args[1] \in Range(assetKeys)
    /\ GetCursorForAsset(unpackedCursor, result.args[1]).latest_consumed_event_id = Len(store)

\* get_downstream_partition_keys was called for two partitioned assets of
\* the repository and an endpoint of the mapped range is no partition key of
\* the downstream asset.
MappedRangeInvalid ==
    /\ CalledWith("get_downstream_partition_keys")
    /\ result.args[2] \in DOMAIN assetsDefsByKey
    /\ result.args[3] \in DOMAIN assetsDefsByKey
    /\ IsPartitionsDefinition(assetsDefsByKey[result.args[2]])
    /\ IsPartitionsDefinition(assetsDefsByKey[result.args[3]])
    /\ \/ result.args[4].start \notin Range(assetsDefsByKey[result.args[3]].keys)
       \/ result.args[4].end \notin Range(assetsDefsByKey[result.args[3]].keys)

DownstreamIsTimeWindow ==
    assetsDefsByKey[result.args[3]].kind = "TimeWindowPartitionsDefinition"

\* C28 as claimed: with an invalid mapped range a downstream definition that
\* is not a time-window definition gives a warning and a result, a
\* time-window definition an invalid-invocation error.
C28_WarnsUnlessTimeWindow ==
    MappedRangeInvalid =>
        IF DownstreamIsTimeWindow
        THEN result.outcome.kind = "DagsterInvalidInvocationError"
        ELSE result.outcome.kind = "returned" /\ result.outcome.warned

\* C28: with an invalid mapped range a time-window downstream definition
\* gives a warning and the keys get_partition_keys_in_range finds, any other
\* downstream definition an invalid-invocation error.
C28_WarnsForTimeWindowOnly ==
    MappedRangeInvalid =>
        IF DownstreamIsTimeWindow
        THEN /\ result.outcome.kind = "returned"
             /\ result.outcome.warned
             /\ result.outcome.value
                    = GetPartitionKeysInRange(assetsDefsByKey[result.args[3]],
                                              result.args[4])
        ELSE result.outcome.kind = "DagsterInvalidInvocationError"

\* A static upstream partition was mapped to a range that ends beyond the
\* keys of a time-window downstream definition: the call warned and returned
\* the keys it has.
C28_Witness ==
    /\ MappedRangeInvalid
    /\ DownstreamIsTimeWindow
    /\ assetsDefsByKey[result.args[2]].kind = "StaticPartitionsDefinition"
    /\ result.args[4] = [start |-> 1, end |-> NumPartitions + 1]
    /\ result.outcome = ReturnedWith(UtilPartitionKeys, TRUE)

\* --------------------------------------------- evaluate_tick, step by step
\* The history of a tick that is followed through _fn: besides NoTick's
\* fields, how many items evaluate_tick has drained from _fn, _fn's
\* runs_yielded, how its guard ended and how often it has called
\* update_cursor_after_evaluation.
DrainTick(start_cursor) ==
    [start_cursor |-> start_cursor, advanced |-> NoAdvancedRecords,
     advance_all |-> FALSE, computed |-> "not_run",
     user_result |-> [kind |-> "None", items |-> <<>>],
     yielded |-> 0, runs_yielded |-> FALSE, guard |-> "pending", updates |-> 0]

\* The log of the step-by-step specification: two partitions of asset_1.
DrainStore ==
    <<[asset_key |-> "asset_1", partition |-> 1],
      [asset_key |-> "asset_1", partition |-> 2]>>

InitDrain ==
    /\ InitWith(DrainStore)

\* The daemon builds the context of a tick on the stored cursor.
BeginTick ==
    /\ pc \in {"idle", "done", "failed"}
    /\ pc' = "evaluating"
    /\ cursor' = storedCursor
    /\ unpackedCursor' = UnpackCursor(storedCursor)
    /\ advancedRecordIdsByKey' = NoAdvancedRecords
    /\ partitionKeyByRecordId' = EmptyDict
    /\ advanceAllCursorsCalled' = FALSE
    /\ cursorHasBeenUpdated' = FALSE
    /\ fetchedInitialUnconsumedEvents' = FALSE
    /\ initialUnconsumedEventsById' = {}
    /\ result' = NoResult
    /\ tick' = DrainTick(storedCursor)
    /\ UNCHANGED <<targets, assetKeys, assetsDefsByKey, store, storedCursor>>

\* materialization_fn(context) returns: _fn ends at once for None, otherwise
\* evaluate_tick starts to drain what _fn yields.
FnReturns ==
    \E user_result \in UserResults :
        /\ pc = "evaluating"
        /\ pc' = IF user_result.kind = "None" THEN "validating" ELSE "draining"
        /\ tick' = [tick EXCEPT !.user_result = user_result,
                                !.advanced = advancedRecordIdsByKey,
                                !.advance_all = advanceAllCursorsCalled]
        /\ UNCHANGED <<targets, assetKeys, assetsDefsByKey, store, storedCursor,
                       ctxVars, result>>

\* update_cursor_after_evaluation: the context's variables after the call.
CursorUpdate ==
    LET fetches ==
            /\ ~advanceAllCursorsCalled
            /\ ~NoEventsMarkedAsAdvanced(advancedRecordIdsByKey)
        cached ==
            IF fetches
            THEN CacheInitialUnconsumedEvents(store, unpackedCursor,
                                              fetchedInitialUnconsumedEvents,
                                              initialUnconsumedEventsById)
            ELSE initialUnconsumedEventsById
        new_cursor ==
            GetCursorWithAdvances(store, cached, unpackedCursor,
                                  advancedRecordIdsByKey, partitionKeyByRecordId,
                                  advanceAllCursorsCalled)
        updated == new_cursor.kind = "cursor"
    IN  /\ cursor' = IF updated THEN new_cursor.cursor ELSE cursor
        /\ unpackedCursor' =
               IF updated THEN UnpackCursor(new_cursor.cursor)
               ELSE new_cursor.unpacked
        /\ advancedRecordIdsByKey' =
               IF updated THEN NoAdvancedRecords ELSE advancedRecordIdsByKey
        /\ partitionKeyByRecordId' =
               IF updated THEN EmptyDict ELSE partitionKeyByRecordId
        /\ advanceAllCursorsCalled' =
               IF updated THEN FALSE ELSE advanceAllCursorsCalled
        /\ fetchedInitialUnconsumedEvents' = (fetchedInitialUnconsumedEvents \/ fetches)
        /\ initialUnconsumedEventsById' = cached
        /\ tick' = [tick EXCEPT !.computed = new_cursor.kind,
                                !.updates = tick.updates + 1]
        /\ pc' = IF new_cursor.kind = "raised" THEN "failed" ELSE "validating"

\* Variant: _fn updates the cursor each time it yields an item.
DrainItem_Updating ==
    /\ pc = "draining"
    /\ tick.yielded < Len(tick.user_result.items)
    /\ CursorUpdate
    /\ UNCHANGED <<targets, assetKeys, assetsDefsByKey, store, storedCursor,
                   cursorHasBeenUpdated, result>>

\* evaluate_tick takes the next item _fn yields; _fn sets runs_yielded for
\* the items of a generator or list and for a bare RunRequest.
DrainItem ==
    /\ pc = "draining"
    /\ tick.yielded < Len(tick.user_result.items)
    /\ tick' = [tick EXCEPT
                   !.yielded = tick.yielded + 1,
                   !.runs_yielded = tick.user_result.kind \in {"sequence", "RunRequest"}]
    /\ UNCHANGED <<targets, assetKeys, assetsDefsByKey, store, storedCursor, pc,
                   ctxVars, result>>

\* All items are drained: the guard of _fn.
CheckCursorUpdated ==
    /\ pc = "draining"
    /\ tick.yielded = Len(tick.user_result.items)
    /\ LET raises == tick.runs_yielded /\ ~cursorHasBeenUpdated
       IN  /\ pc' = IF raises THEN "failed" ELSE "guarded"
           /\ tick' = [tick EXCEPT !.guard = IF raises THEN "raised" ELSE "passed"]
    /\ UNCHANGED <<targets, assetKeys, assetsDefsByKey, store, storedCursor,
                   ctxVars, result>>

\* The last statement of _fn: context.update_cursor_after_evaluation()
UpdateCursorAfterEvaluation ==
    /\ pc = "guarded"
    /\ CursorUpdate
    /\ UNCHANGED <<targets, assetKeys, assetsDefsByKey, store, storedCursor,
                   cursorHasBeenUpdated, result>>

\* _fn has ended: evaluate_tick validates the drained items and returns
\* SensorExecutionData, whose cursor the daemon stores.
ValidateResult ==
    /\ pc = "validating"
    /\ LET evaluation == EvaluateResult(targets, tick.user_result.items)
       IN  /\ pc' = IF evaluation.failed THEN "failed" ELSE "done"
           /\ result' =
                  IF evaluation.failed THEN NoResult
                  ELSE [returned |-> TRUE,
                        run_requests |-> evaluation.run_requests,
                        skip_message |-> evaluation.skip_message,
                        cursor |-> cursor]
           /\ storedCursor' = IF evaluation.failed THEN storedCursor ELSE cursor
    /\ UNCHANGED <<targets, assetKeys, assetsDefsByKey, store, ctxVars, tick>>

NextDrain ==
    \/ BeginTick
    \/ AdvanceCursor
    \/ AdvanceAllCursors
    \/ FnReturns
    \/ DrainItem
    \/ CheckCursorUpdated
    \/ UpdateCursorAfterEvaluation
    \/ ValidateResult

SpecDrain == InitDrain /\ [][NextDrain]_vars

\* C29: in a tick driven by evaluate_tick, update_cursor_after_evaluation is
\* invoked at most once, and only after every item of the user's result has
\* been drained and the missing-advance guard has passed.
C29_OneUpdateAfterDrainAndGuard ==
    "updates" \in DOMAIN tick =>
        /\ tick.updates <= 1
        /\ tick.updates = 1
           => /\ tick.yielded = Len(tick.user_result.items)
              /\ tick.guard = "passed"
              /\ tick.user_result.kind # "None"
              /\ (tick.user_result.items # <<>> /\ tick.user_result.kind # "SkipReason")
                 => cursorHasBeenUpdated

\* A tick drained a list of two items after an advance call, passed the
\* guard and ran the cursor computation once.
C29_Witness ==
    /\ "updates" \in DOMAIN tick
    /\ tick.updates = 1
    /\ tick.yielded = 2
    /\ tick.guard = "passed"
    /\ tick.computed = "cursor"
    /\ pc = "done"

\* The tick advanced the asset to the event that was already its latest
\* consumed event, and to nothing else, without advance_all_cursors, and
\* ended without the backlog error.
ReadvancedConsumedEvent(asset_key) ==
    /\ TickEnded
    /\ tick.computed # "raised"
    /\ ~tick.advance_all
    /\ StartComponent(asset_key).latest_consumed_event_id # None
    /\ tick.advanced[asset_key] = {StartComponent(asset_key).latest_consumed_event_id}

\* C30: a tick that advances an asset only to the event that is already its
\* latest consumed event, without advance_all_cursors, leaves the asset's
\* component as it was at tick start: same consumed id, same consumed
\* partition, same trailing map.
C30_ReadvanceKeepsComponent ==
    \A a \in Assets :
        ReadvancedConsumedEvent(a) => NewComponent(a) = StartComponent(a)

\* A tick re-advanced asset_1 to its consumed event while an older event of
\* another partition was trailing, and wrote a new cursor.
C30_Witness ==
    /\ pc = "done"
    /\ tick.computed = "cursor"
    /\ ReadvancedConsumedEvent("asset_1")
    /\ TrailingOf(StartComponent("asset_1")) # EmptyDict
    /\ tick.advanced["asset_2"] = {}

\* ------------------------------------------------ None values passed to advance_cursor
\* A step is an advance_cursor call whose mapping gives None for every key.
\* (A key the mapping leaves out is a key with None: add_advanced_records
\* visits only the items of the mapping.)
OnlyNonePassed(records_by_key) == \A a \in Assets : records_by_key[a] = None

\* The step ends the tick: evaluate_tick returns or raises.
TickEnds == pc = "evaluating" /\ pc' \in {"done", "failed"}

\* C31: an advance_cursor call records no advance request for a key whose
\* value is None, and none at all when every value is None.  Hence at the end
\* of a tick in which no request was recorded the context's cursor, and the
\* cursor a completed tick returns, is the string the tick started with; and
\* a key without a recorded request has in the tick's cursor the component it
\* started the tick with.
C31_Step ==
    /\ \A records_by_key \in RecordsByKey(1..Len(store)) :
           AdvanceCursorWith(records_by_key)
           => /\ \A a \in Assets :
                     records_by_key[a] = None
                     => advancedRecordIdsByKey'[a] = advancedRecordIdsByKey[a]
              /\ OnlyNonePassed(records_by_key)
                 => /\ advancedRecordIdsByKey' = advancedRecordIdsByKey
                    /\ partitionKeyByRecordId' = partitionKeyByRecordId
    /\ TickEnds
       => /\ (\A a \in Assets : advancedRecordIdsByKey[a] = {})
             => /\ cursor' = tick.start_cursor
                /\ pc' = "done" => result'.cursor = tick.start_cursor
          /\ \A a \in Assets :
                 advancedRecordIdsByKey[a] = {}
                 => GetCursorForAsset(UnpackCursor(cursor'), a)
                        = GetCursorForAsset(UnpackCursor(tick.start_cursor), a)

C31_NonePassedRecordsNothing == [][C31_Step]_vars

\* A completed tick that called advance_cursor and not advance_all_cursors,
\* recorded a request for one asset and none for the other, which started the
\* tick with a consumed id and kept its component.
C31_Witness ==
    \E a, b \in Assets :
        /\ pc = "done" /\ tick.computed = "cursor"
        /\ cursorHasBeenUpdated /\ ~tick.advance_all
        /\ tick.advanced[a] = {} /\ tick.advanced[b] # {}
        /\ StartComponent(a).latest_consumed_event_id # None
        /\ NewComponent(a) = StartComponent(a)

\* A completed tick whose advance_cursor calls passed only None values, from
\* a cursor that was written before.
C31_WitnessOnlyNone ==
    /\ pc = "done"
    /\ cursorHasBeenUpdated /\ ~tick.advance_all
    /\ \A a \in Assets : tick.advanced[a] = {}
    /\ ~tick.start_cursor.is_none
    /\ cursor = tick.start_cursor

\* ------------------------------------------------------- a backlog of exactly the cap
\* C32: the cursor keeps the latest unconsumed event id of up to
\* MAX_NUM_UNCONSUMED_EVENTS partitions per asset: a tick whose cursor
\* computation arrives at a trailing map of exactly MAX_NUM_UNCONSUMED_EVENTS
\* entries for an asset writes the new cursor with that map, and only a larger
\* map is the backlog error.
C32_FullMapIsStored ==
    \A a \in Assets :
        (/\ TickEnded /\ tick.computed # "not_run"
         /\ ~tick.advance_all
         /\ tick.advanced[a] # {}
         /\ Cardinality(DOMAIN ExpectedTrailing(a)) = MAX_NUM_UNCONSUMED_EVENTS)
        => /\ tick.computed = "cursor"
           /\ TrailingOf(NewComponent(a)) = ExpectedTrailing(a)

\* ------------------------------------------------------- several SkipReasons
\* The number of the result's items of the type.
NumItemsOfType(user_result, type) ==
    Cardinality({i \in 1..Len(user_result.items) : user_result.items[i].type = type})

\* C33: when the user function's result holds two or more SkipReasons and no
\* RunRequest, evaluate_tick fails: it returns no SensorExecutionData, so no
\* skip message, and the daemon's cursor stays as it was.
C33_SeveralSkipReasonsFail ==
    (/\ TickEnded
     /\ NumItemsOfType(tick.user_result, "SkipReason") >= 2
     /\ NumItemsOfType(tick.user_result, "RunRequest") = 0)
    => /\ pc = "failed"
       /\ ~result.returned
       /\ result.skip_message = "None"
       /\ storedCursor = tick.start_cursor

\* A tick that advanced the cursor, so passed the missing-advance guard and
\* computed a new cursor, and whose function yielded two SkipReasons: it
\* failed in evaluate_tick's sorting of the items.
C33_Witness ==
    /\ pc = "failed"
    /\ tick.computed = "cursor"
    /\ tick.user_result.kind = "sequence"
    /\ NumItemsOfType(tick.user_result, "SkipReason") = 2
    /\ NumItemsOfType(tick.user_result, "RunRequest") = 0
    /\ ~result.returned

\* -------------------------------------------- the log grows during a tick
\* The user function reads the event log through the context's queries
\* (latest_materialization_records_by_key, materialization_records_for_key,
\* ...): each of them asks the instance for the records at the time of the
\* call.  The tick's history notes how long the log was at the last of them.
QueryEventLog ==
    /\ pc = "evaluating"
    /\ tick' = [f \in DOMAIN tick \cup {"log_length_queried"} |->
                   IF f = "log_length_queried" THEN Len(store) ELSE tick[f]]
    /\ tick' # tick
    /\ UNCHANGED <<targets, assetKeys, assetsDefsByKey, store, storedCursor, pc, ctxVars, result>>

\* The tick's function has queried the log.
HasQueried == "log_length_queried" \in DOMAIN tick

\* advance_cursor with records the queries of this tick have returned.
AdvanceCursorQueried ==
    /\ HasQueried
    /\ \E records_by_key \in RecordsByKey(1..tick.log_length_queried) :
           AdvanceCursorWith(records_by_key)

NextLive ==
    \/ Materialize
    \/ StartTick
    \/ QueryEventLog
    \/ AdvanceCursorQueried
    \/ AdvanceAllCursors
    \/ FinishTick

SpecLive == Init /\ [][NextLive]_vars

\* The events appended to the log after the last query of the tick's function.
AppendedAfterQueries == (tick.log_length_queried + 1)..Len(store)

\* The tick left the event alone: it is beyond every id the tick recorded as
\* advanced for its asset, it is not an entry of the asset's trailing map in
\* the tick's cursor, and materialization_records_for_key of a context built
\* on the stored cursor returns it.
LeftAlone(e) ==
    LET a == store[e].asset_key
    IN  /\ \A i \in tick.advanced[a] : e > i
        /\ e \notin Range(TrailingOf(NewComponent(a)))
        /\ e \in Range(MaterializationRecordsForKey(
                           store, UnpackCursor(storedCursor), a, Len(store)))

\* C34 (as stated): every materialization appended between the function's
\* queries and the end of the tick is left alone by the tick.
C34_AppendedEventsLeftAlone ==
    (TickEnded /\ HasQueried) => \A e \in AppendedAfterQueries : LeftAlone(e)

\* advance_all_cursors reads the log itself (line 917).  No event of the asset
\* that was in the log at its last call is beyond the ids recorded for the
\* asset: the call records the asset's latest event after the consumed id.
AppendedAfterAdvanceAll(e) ==
    tick.advance_all
    => \A i \in tick.advanced[store[e].asset_key] : e > i

\* C34 (amended): every materialization appended after the tick's last read
\* of the log, the reads of advance_all_cursors included, is left alone by
\* the tick.
C34_EventsAfterLastReadLeftAlone ==
    (TickEnded /\ HasQueried)
    => \A e \in AppendedAfterQueries : AppendedAfterAdvanceAll(e) => LeftAlone(e)

\* A completed tick that advanced a record of the partitioned asset and wrote
\* a new cursor while a later event of the asset, in another partition,
\* arrived after its queries.
C34_Witness ==
    /\ pc = "done" /\ tick.computed = "cursor"
    /\ HasQueried
    /\ \E e \in AppendedAfterQueries :
          LET a == store[e].asset_key
          IN  /\ store[e].partition # None
              /\ tick.advanced[a] # {}
              /\ store[MaxOf(tick.advanced[a])].partition # store[e].partition
              /\ NewComponent(a).latest_consumed_event_id = MaxOf(tick.advanced[a])
              /\ LeftAlone(e)

\* ------------------------------------- the consumed partition is not trailing
\* The asset's component of the cursor string names no consumed partition, or
\* one that is not a key of its trailing map.
ConsumedPartitionNotTrailing(c, asset_key) ==
    LET component == GetCursorForAsset(UnpackCursor(c), asset_key)
    IN  component.latest_consumed_event_partition # None
        => component.latest_consumed_event_partition \notin DOMAIN TrailingOf(component)

\* C35: in every cursor reachable from the empty cursor by ticks, the stored
\* one, the context's and the one a tick returns, the consumed partition of
\* an asset, when set, is not a key of the asset's trailing map; ticks that
\* advance only to ids not beyond the consumed id, and so keep the consumed
\* pointer, are among them.
C35_ConsumedPartitionNotTrailing ==
    \A a \in Assets :
        /\ ConsumedPartitionNotTrailing(storedCursor, a)
        /\ ConsumedPartitionNotTrailing(cursor, a)
        /\ ConsumedPartitionNotTrailing(result.cursor, a)

\* A completed tick that advanced only ids not beyond the consumed id it
\* started with: it kept the consumed pointer and wrote a cursor whose
\* trailing map is not empty.
C35_Witness ==
    \E a \in Assets :
        /\ pc = "done" /\ tick.computed = "cursor"
        /\ tick.advanced[a] # {}
        /\ MaxOf(tick.advanced[a]) <= OrZero(StartComponent(a).latest_consumed_event_id)
        /\ StoredComponent(a).latest_consumed_event_partition # None
        /\ StoredComponent(a).latest_consumed_event_partition
               = StartComponent(a).latest_consumed_event_partition
        /\ DOMAIN TrailingOf(StoredComponent(a)) # {}

\* ------------------------------------ the advance calls of a tick, in order
\* The number of advance_cursor calls the tick's history keeps.
MaxCalls == 3

\* The log of the ticks whose calls are followed: three records of asset_1,
\* the last in the partition of the first, and a record of asset_2.
OrderStore ==
    <<[asset_key |-> "asset_1", partition |-> 1],
      [asset_key |-> "asset_1", partition |-> 2],
      [asset_key |-> "asset_2", partition |-> None],
      [asset_key |-> "asset_1", partition |-> 1]>>

InitOrder == InitWith(OrderStore)

\* The mappings the tick's function has built for advance_cursor, in order.
CallsOf(t) == IF "calls" \in DOMAIN t THEN t.calls ELSE <<>>

\* The user function builds the mapping of its next advance_cursor call; the
\* tick's history keeps it.
PrepareAdvanceCursor ==
    /\ pc = "evaluating"
    /\ Len(CallsOf(tick)) < MaxCalls
    /\ \E records_by_key \in RecordsByKey(1..Len(store)) :
           tick' = [f \in DOMAIN tick \cup {"calls"} |->
                       IF f = "calls" THEN Append(CallsOf(tick), records_by_key)
                       ELSE tick[f]]
    /\ UNCHANGED <<targets, assetKeys, assetsDefsByKey, store, storedCursor, pc, ctxVars, result>>

\* advance_cursor is called with the mapping built last.
AdvanceCursorPrepared ==
    /\ CallsOf(tick) # <<>>
    /\ AdvanceCursorWith(CallsOf(tick)[Len(CallsOf(tick))])

\* The tick's function returns a SkipReason after its calls.
FinishTickSkipping ==
    FinishTickWith([kind |-> "SkipReason", items |-> <<SkipReasonItem>>])

NextOrder ==
    \/ StartTick
    \/ PrepareAdvanceCursor
    \/ AdvanceCursorPrepared
    \/ AdvanceAllCursors
    \/ FinishTickSkipping

SpecOrder == InitOrder /\ [][NextOrder]_vars

\* The advance state of an accumulator to which the events are passed one
\* call per event, in the order of the sequence.
RECURSIVE PassedOneByOne(_, _)
PassedOneByOne(acc, ids) ==
    IF ids = <<>> THEN acc
    ELSE LET records_by_key ==
                 [a \in Assets |->
                     IF store[Head(ids)].asset_key = a THEN Head(ids) ELSE None]
         IN  PassedOneByOne(
                 [advanced |-> AddAdvancedRecordIds(acc.advanced, records_by_key),
                  partition_keys |-> AddPartitionKeys(acc.partition_keys, store,
                                                      records_by_key)],
                 Tail(ids))

\* What get_cursor_with_advances gives on a new context built on the tick's
\* start cursor when the events the tick recorded as advanced are passed
\* once each, in ascending order, with the tick's advance_all_cursors flag.
CursorOfAdvancedSet ==
    LET unpacked_cursor == UnpackCursor(tick.start_cursor)
        state == PassedOneByOne(
                     [advanced |-> NoAdvancedRecords, partition_keys |-> EmptyDict],
                     Ascending(UNION {tick.advanced[a] : a \in Assets}))
    IN  GetCursorWithAdvances(
            store,
            CacheInitialUnconsumedEvents(store, unpacked_cursor, FALSE, {}),
            unpacked_cursor, state.advanced, state.partition_keys, tick.advance_all)

\* C36: the cursor computed at the end of a tick is the one computed from the
\* set of events recorded as advanced and the advance_all_cursors flag alone:
\* whatever the order of the advance_cursor calls, the grouping of the events
\* into calls and the number of times an event was passed, the computation
\* ends as it does for one call per event in ascending order, and with the
\* same cursor string.
C36_CursorFromAdvancedSetOnly ==
    (TickEnded /\ tick.computed # "not_run")
    => /\ tick.computed = CursorOfAdvancedSet.kind
       /\ tick.computed = "cursor" => cursor = CursorOfAdvancedSet.cursor

\* Every prepared mapping was passed to advance_cursor.
AllCallsMade ==
    \A i \in 1..Len(CallsOf(tick)) :
        \A a \in Assets :
            CallsOf(tick)[i][a] # None => CallsOf(tick)[i][a] \in tick.advanced[a]

\* A completed tick that wrote a new cursor after three advance_cursor calls
\* of which a later one passed an older event of an asset than an earlier
\* one, two passed the same event, and one passed events of both assets.
C36_Witness ==
    /\ pc = "done" /\ tick.computed = "cursor"
    /\ ~tick.advance_all
    /\ Len(CallsOf(tick)) = MaxCalls
    /\ AllCallsMade
    /\ \E i, j \in 1..MaxCalls : \E a \in Assets :
          /\ i < j
          /\ tick.calls[j][a] # None
          /\ tick.calls[i][a] > tick.calls[j][a]
    /\ \E i, j \in 1..MaxCalls : \E a \in Assets :
          i < j /\ tick.calls[i][a] # None /\ tick.calls[i][a] = tick.calls[j][a]
    /\ \E i \in 1..MaxCalls : \A a \in Assets : tick.calls[i][a] # None
    /\ cursor = CursorOfAdvancedSet.cursor
    /\ DOMAIN TrailingOf(NewComponent("asset_1")) # {}

\* --------------------------------------------- what passes the missing-advance guard
\* C37: a tick that returns at least one RunRequest has recorded at least one
\* materialization as advanced.
C37_RunRequestsNeedAdvancedRecord ==
    (pc = "done" /\ result.returned /\ result.run_requests # <<>>)
    => \E a \in Assets : tick.advanced[a] # {}

\* ------------------------------------------------ the keys of a rewritten cursor
\* The keys of the cursor string's members, and the member of a key.
CursorKeys(c) == {c.members[i][1] : i \in 1..Len(c.members)}

MembersOf(c, key) == {c.members[i] : i \in {j \in 1..Len(c.members) : c.members[j][1] = key}}

\* str(asset_key) of the keys the sensor monitors.
TrackedKeys == {StrAssetKey(assetKeys[i]) : i \in 1..Len(assetKeys)}

\* C38: a tick that rewrites the cursor writes a JSON object with exactly one
\* member per monitored asset key.  An asset without advance request that
\* had no member in the start cursor gets [None, None, {}], one that had a
\* member keeps it as it was, and an advanced asset that had a member has one.
C38_RewrittenCursorHasTrackedKeys ==
    ComputedCursor
    => /\ ~cursor.is_none
       /\ CursorKeys(cursor) = TrackedKeys
       /\ Len(cursor.members) = Cardinality(TrackedKeys)
       /\ \A a \in Assets :
              LET key == StrAssetKey(a)
              IN  /\ (tick.advanced[a] = {} /\ key \notin CursorKeys(tick.start_cursor))
                     => MembersOf(cursor, key)
                            = {<<key, DumpComponent(Component(None, None, EmptyDict))>>}
                  /\ (tick.advanced[a] = {} /\ key \in CursorKeys(tick.start_cursor))
                     => MembersOf(cursor, key) = MembersOf(tick.start_cursor, key)
                  /\ key \in CursorKeys(tick.start_cursor) => MembersOf(cursor, key) # {}
       /\ pc = "done" => storedCursor = cursor

\* A completed first tick, started without cursor, that advanced a record of
\* one asset: the other asset got the member [None, None, {}].
C38_Witness ==
    \E a, b \in Assets :
        /\ pc = "done" /\ tick.computed = "cursor"
        /\ tick.start_cursor.is_none
        /\ tick.advanced[a] # {} /\ tick.advanced[b] = {}
        /\ MembersOf(storedCursor, StrAssetKey(b))
               = {<<StrAssetKey(b), DumpComponent(Component(None, None, EmptyDict))>>}
        /\ MembersOf(storedCursor, StrAssetKey(a)) # {}

\* ----------------------------------------------- the single-asset sensor
\* AssetSensorDefinition keeps the storage id of the event it handled last as
\* its cursor, written with str() and read with int().  A cursor is None or a
\* string, held as the sequence of its characters.
NoStrCursor == [is_none |-> TRUE, chars |-> <<>>]

StrCursor(chars) == [is_none |-> FALSE, chars |-> chars]

Digits == <<"0", "1", "2", "3", "4", "5", "6", "7", "8", "9">>

RECURSIVE StrOfInt(_)
\* str(n) of a storage id: its decimal digits.
StrOfInt(n) ==
    IF n < 10 THEN <<Digits[n + 1]>>
    ELSE Append(StrOfInt(n \div 10), Digits[(n % 10) + 1])

RECURSIVE DigitsValue(_, _)
DigitsValue(chars, acc) ==
    IF chars = <<>> THEN acc
    ELSE DigitsValue(Tail(chars),
                     10 * acc + (CHOOSE d \in 0..9 : Digits[d + 1] = Head(chars)))

\* int(s) for a string of decimal digits; any other string is a ValueError.
IntOfStr(chars) ==
    IF chars = <<>> \/ \E i \in 1..Len(chars) : chars[i] \notin Range(Digits)
    THEN [raised |-> TRUE, value |-> None]
    ELSE [raised |-> FALSE, value |-> DigitsValue(chars, 0)]

\* Lines 1645-1650: after_cursor of the context's cursor.
AfterCursorOf(c) ==
    IF c.is_none \/ c.chars = <<>> THEN None
    ELSE IF IntOfStr(c.chars).raised THEN None
    ELSE IntOfStr(c.chars).value

\* The asset the sensor monitors (self._asset_key).
AssetSensorKey == "asset_1"

\* Variant: the query in ascending order.
AssetEventRecords_Ascending(st, after_cursor) ==
    Limit(Ascending(MaterializationIds(st, AssetSensorKey, after_cursor, None)), 1)

\* Lines 1652-1660: the latest materialization of the asset after the cursor.
AssetEventRecords(st, after_cursor) ==
    Limit(Descending(MaterializationIds(st, AssetSensorKey, after_cursor, None)), 1)

\* The longest log of the single-asset sensor's ticks.
MaxLogLength == 11

\* The length of the log when the sensor is created.
InitialLogLength == 8

\* The log when the sensor is created: a record of the monitored asset and
\* records of another asset.
AssetSensorStore ==
    [i \in 1..InitialLogLength |->
        [asset_key |-> IF i = 1 THEN AssetSensorKey ELSE "asset_2", partition |-> None]]

\* History of a tick of the single-asset sensor: the cursor it started from,
\* the length of the log at the query, the record the query returned, the
\* number of calls of the user function, what it returned and the items
\* evaluate_tick has received so far.
AssetTick(start_cursor) ==
    [start_cursor |-> start_cursor, queried |-> FALSE, log_length |-> 0,
     event |-> None, calls |-> 0,
     user_result |-> [kind |-> "None", items |-> <<>>], yielded |-> <<>>]

NoAssetSensorResult ==
    [returned |-> FALSE, run_requests |-> <<>>, skip_message |-> "None",
     cursor |-> NoStrCursor]

\* The variables of the multi-asset context, which this sensor has not.
unusedCtxVars == <<unpackedCursor, advancedRecordIdsByKey, partitionKeyByRecordId,
                   advanceAllCursorsCalled, cursorHasBeenUpdated,
                   fetchedInitialUnconsumedEvents, initialUnconsumedEventsById>>

InitAssetSensor ==
    /\ store = AssetSensorStore
    /\ storedCursor = NoStrCursor
    /\ pc = "idle"
    /\ cursor = NoStrCursor
    /\ unpackedCursor = UnpackCursor(NoCursor)
    /\ advancedRecordIdsByKey = NoAdvancedRecords
    /\ partitionKeyByRecordId = EmptyDict
    /\ advanceAllCursorsCalled = FALSE
    /\ cursorHasBeenUpdated = FALSE
    /\ fetchedInitialUnconsumedEvents = FALSE
    /\ initialUnconsumedEventsById = {}
    /\ result = NoAssetSensorResult
    /\ targets = Targets
    /\ assetKeys = <<AssetSensorKey>>
    /\ assetsDefsByKey = AssetsDefsByKey
    /\ tick = AssetTick(NoStrCursor)

\* A materialization of the monitored or of another asset is stored, before
\* or during a tick.
MaterializeAny ==
    /\ pc \in {"idle", "evaluating", "calling", "draining"}
    /\ Len(store) < MaxLogLength
    /\ \E asset_key \in Assets :
           store' = Append(store, [asset_key |-> asset_key, partition |-> None])
    /\ UNCHANGED <<targets, assetKeys, assetsDefsByKey, storedCursor, pc, ctxVars, result, tick>>

\* The daemon starts a tick: SensorEvaluationContext.__init__ with the stored
\* cursor.
AssetSensorStartTick ==
    /\ pc \in {"idle", "done", "failed"}
    /\ pc' = "evaluating"
    /\ cursor' = storedCursor
    /\ result' = NoAssetSensorResult
    /\ tick' = AssetTick(storedCursor)
    /\ UNCHANGED <<targets, assetKeys, assetsDefsByKey, store, storedCursor, unusedCtxVars>>

\* _fn up to line 1665: the query; without a record _fn returns.
AssetFnQueries ==
    /\ pc = "evaluating"
    /\ LET event_records == AssetEventRecords(store, AfterCursorOf(cursor))
       IN  /\ tick' = [tick EXCEPT
                          !.queried = TRUE,
                          !.log_length = Len(store),
                          !.event = IF event_records = <<>> THEN None
                                    ELSE event_records[1]]
           /\ pc' = IF event_records = <<>> THEN "validating" ELSE "calling"
    /\ UNCHANGED <<targets, assetKeys, assetsDefsByKey, store, storedCursor, ctxVars, result>>

\* Line 1666: materialization_fn(context, event_record.event_log_entry)
AssetFnCallsUserFn ==
    /\ pc = "calling"
    /\ \E user_result \in UserResults :
           tick' = [tick EXCEPT !.calls = @ + 1, !.user_result = user_result]
    /\ pc' = "draining"
    /\ UNCHANGED <<targets, assetKeys, assetsDefsByKey, store, storedCursor, ctxVars, result>>

\* Lines 1667-1671: what _fn yields of the user function's result.
ItemsToYield(user_result) ==
    IF user_result.kind = "None" THEN <<>> ELSE user_result.items

\* evaluate_tick's list() takes the next item.
AssetFnYields ==
    /\ pc = "draining"
    /\ Len(tick.yielded) < Len(ItemsToYield(tick.user_result))
    /\ tick' = [tick EXCEPT
                   !.yielded = Append(@, ItemsToYield(tick.user_result)[Len(@) + 1])]
    /\ UNCHANGED <<targets, assetKeys, assetsDefsByKey, store, storedCursor, pc, ctxVars, result>>

\* Line 1672: context.update_cursor(str(event_record.storage_id))
AssetFnUpdatesCursor ==
    /\ pc = "draining"
    /\ Len(tick.yielded) = Len(ItemsToYield(tick.user_result))
    /\ cursor' = StrCursor(StrOfInt(tick.event))
    /\ pc' = "validating"
    /\ UNCHANGED <<targets, assetKeys, assetsDefsByKey, store, storedCursor, unusedCtxVars, result, tick>>

\* evaluate_tick on the drained list (1257-1302); the daemon stores the
\* cursor of the SensorExecutionData.
AssetSensorEvaluates ==
    /\ pc = "validating"
    /\ LET evaluation == EvaluateResult(targets, tick.yielded)
       IN  /\ pc' = IF evaluation.failed THEN "failed" ELSE "done"
           /\ result' = IF evaluation.failed THEN NoAssetSensorResult
                        ELSE [returned |-> TRUE,
                              run_requests |-> evaluation.run_requests,
                              skip_message |-> evaluation.skip_message,
                              cursor |-> cursor]
           /\ storedCursor' = IF evaluation.failed THEN storedCursor ELSE cursor
    /\ UNCHANGED <<targets, assetKeys, assetsDefsByKey, store, ctxVars, tick>>

NextAssetSensor ==
    \/ MaterializeAny
    \/ AssetSensorStartTick
    \/ AssetFnQueries
    \/ AssetFnCallsUserFn
    \/ AssetFnYields
    \/ AssetFnUpdatesCursor
    \/ AssetSensorEvaluates

SpecAssetSensor == InitAssetSensor /\ [][NextAssetSensor]_vars

\* The cursor read as an integer; no cursor counts as 0.
CursorAsInt(c) == IF c.is_none THEN 0 ELSE IntOfStr(c.chars).value

\* The cursor is None or the decimal string of a storage id.
IsStorageIdCursor(c) == c.is_none \/ ~IntOfStr(c.chars).raised

\* The materializations of the monitored asset that were in the log at the
\* tick's query and lie after the cursor the tick started from.
EventsAfterStartCursor ==
    {i \in 1..tick.log_length :
        /\ store[i].asset_key = AssetSensorKey
        /\ i > CursorAsInt(tick.start_cursor)}

\* The tick's results are drained: _fn is past its loop over the items.
ResultsDrained == pc \in {"validating", "done", "failed"}

C39_State ==
    /\ IsStorageIdCursor(cursor) /\ IsStorageIdCursor(storedCursor)
    /\ tick.queried =>
           tick.event = IF EventsAfterStartCursor = {} THEN None
                        ELSE MaxOf(EventsAfterStartCursor)
    /\ (tick.queried /\ tick.event = None)
       => /\ tick.calls = 0
          /\ cursor = tick.start_cursor
          /\ pc \in {"validating", "done"}
          /\ pc = "done" => /\ result.run_requests = <<>>
                            /\ result.skip_message = EmptyResultMessage
                            /\ result.cursor = tick.start_cursor
                            /\ storedCursor = tick.start_cursor
    /\ tick.event # None
       => /\ tick.calls = IF pc = "calling" THEN 0 ELSE 1
          /\ ~ResultsDrained => cursor = tick.start_cursor
          /\ ResultsDrained => /\ cursor = StrCursor(StrOfInt(tick.event))
                               /\ CursorAsInt(cursor) = tick.event
          /\ pc = "done" => result.cursor = cursor /\ storedCursor = cursor

C39_Step ==
    /\ CursorAsInt(storedCursor') >= CursorAsInt(storedCursor)
    /\ pc # "evaluating" /\ pc' = "evaluating"
       => CursorAsInt(cursor') >= CursorAsInt(storedCursor)
    /\ ~(pc # "evaluating" /\ pc' = "evaluating")
       => CursorAsInt(cursor') >= CursorAsInt(cursor)

\* C39: in every tick of the single-asset sensor the query returns the most
\* recent materialization of the asset after the cursor.  When there is none
\* the user function is not called, the cursor stays as it was and the tick
\* ends as the empty-result skip.  Otherwise the user function is called
\* once, the cursor stays until its results are drained and is then the
\* decimal string of that event's storage id.  The stored cursor, read as an
\* integer, never decreases, nor does the cursor of the context of a tick.
C39_AssetSensorCursor == []C39_State /\ [][C39_Step]_vars

\* A completed tick that started from a written cursor, found several newer
\* materializations, passed the latest to the user function, drained two
\* items and stored a two-digit id as cursor.
C39_Witness ==
    /\ pc = "done"
    /\ ~tick.start_cursor.is_none
    /\ Cardinality(EventsAfterStartCursor) >= 2
    /\ tick.event = MaxOf(EventsAfterStartCursor)
    /\ tick.calls = 1
    /\ Len(tick.yielded) = 2
    /\ Len(storedCursor.chars) = 2
    /\ CursorAsInt(storedCursor) = tick.event
    /\ CursorAsInt(storedCursor) > CursorAsInt(tick.start_cursor)

\* A completed tick that found no materialization after its cursor.
C39_WitnessNoEvent ==
    /\ pc = "done"
    /\ tick.queried /\ tick.event = None
    /\ ~tick.start_cursor.is_none
    /\ storedCursor = tick.start_cursor
    /\ result.skip_message = EmptyResultMessage
====
